---------------------------- MODULE Spec2Model ----------------------------
(***************************************************************************)
(* Model of the rustfu animation renderer: the frame tape reader           *)
(* (renderer/src/frame_reader.rs), the transform algebra and the sprite    *)
(* compositor with its Measure sink (renderer/src/render.rs).              *)
(*                                                                         *)
(* the decoder (src/decoder.rs) and the request/response protocol of the   *)
(* GUI (gui/src/app.rs).                                                   *)
(*                                                                         *)
(* Positions and sizes are small integers, on which f32 arithmetic is      *)
(* exact.  Colour components are f32 values <<m, e>> (m * 2^e) with 24     *)
(* significant bits, rounded to nearest, ties to even.                     *)
(***************************************************************************)
EXTENDS Integers, Sequences, FiniteSets, TLC

VARIABLES
    anm,        \* the decoded Animation shared by every render invocation
    status,     \* per invocation: "idle", "running", "done" or a panic
    input,      \* per invocation: the arguments of the outer render_sprite
    stack,      \* per invocation: the active render_sprite calls
    out,        \* per invocation: the (shape, transform) pairs given to the sink
    bbox,       \* per invocation: the box of a Measure sink
    trace,      \* per invocation: history of the calls made (enter, child, return)
    reader,     \* FrameReader of the tape reader specification
    result,     \* what the last read_transformation returned
    before,     \* the FrameReader before the last read_transformation
    colorRun,   \* ColorTransform operands and what combine and fold made of them
    cursor,     \* the bytes given to a decode, the record they were cut from, the position
    decoded,    \* what the decode returned
    events,     \* UiState::events: the UI events not yet taken
    io_requests,    \* the ring buffer of SpriteRequests, oldest first
    io_receiver,    \* AppState::io_receiver: the channel the render path listens on
    channels,   \* the oneshot channel of every request issued so far
    worker,     \* io_handler: where it stands and the request it is loading
    player,     \* AppState::player: the request whose animation is shown
    current_sprite, \* AnimationPlayer::current_sprite of AppState::player
    ui_error,   \* UiState::error: the request whose failure is shown
    gui,        \* the render thread: "running", or "panicked"
    backend,    \* QuicksilverBackend: the atlas, the cached sprites, the last draw
    window,     \* run_renderer: what its event loop holds between two redraws
    ap          \* an AnimationPlayer, the operations made on it and what it rendered

vars == <<anm, status, input, stack, out, bbox, trace, reader, result, before,
          colorRun, cursor, decoded,
          events, io_requests, io_receiver, channels, worker, player, current_sprite,
          ui_error, gui, backend, window, ap>>

travVars == <<anm, status, input, stack, out, bbox, trace>>
readVars == <<reader, result, before>>
colorVars == <<colorRun>>
decodeVars == <<cursor, decoded>>
guiVars == <<events, io_requests, io_receiver, channels, worker, player, current_sprite,
            ui_error, gui>>

hostVars == <<backend, window, ap>>

\* what the renderer's actions leave alone
restVars == <<colorVars, decodeVars, guiVars, hostVars>>

-----------------------------------------------------------------------------
(* Bounds of the model *)

MaxOff == 3         \* tape offsets range over 0..MaxOff
MaxTag == 17        \* tape tags range over 0..MaxTag
MaxSeek == 1        \* entries of the tape in front of the tag
MaxFrame == 2       \* frame numbers range over 0..MaxFrame
MaxDepth == 3       \* nesting of render_sprite calls the model follows
MaxKids == 2        \* length of the child lists of the generated sprites

-----------------------------------------------------------------------------
(* Option<T> *)

NoneV == [some |-> FALSE]
Some(x) == [some |-> TRUE, v |-> x]

\* Vec::get(i) with a zero-based index
Get(vec, i) == IF i >= 0 /\ i < Len(vec) THEN Some(vec[i + 1]) ELSE NoneV

\* `x as usize` of a signed integer: a negative x wraps to x + 2^64, beyond the
\* length of any Vec.  TLC's integers have 32 bits, so 2^30 stands for 2^64:
\* like it, it is out of reach of every table and tape of the model.
AsUsize(x) == IF x < 0 THEN x + 2^30 ELSE x

\* the parts of the state a specification does not use
IdleColor == colorRun = NoneV

IdleDecode ==
    /\ cursor = [bytes |-> <<>>, position |-> 0, whole |-> <<>>]
    /\ decoded = NoneV

IdleGui ==
    /\ events = <<>>
    /\ io_requests = <<>>
    /\ io_receiver = NoneV
    /\ channels = <<>>
    /\ worker = NoneV
    /\ player = NoneV
    /\ current_sprite = NoneV
    /\ ui_error = NoneV
    /\ gui = "running"

IdleHost ==
    /\ backend = NoneV
    /\ window = NoneV
    /\ ap = NoneV

-----------------------------------------------------------------------------
(* f32: the value m * 2^e is <<m, e>> with m odd, zero is <<0, 0>>.  An     *)
(* operation rounds its exact result to 24 significant bits, to nearest,   *)
(* ties to even.  The exponent range (overflow, subnormals) is not         *)
(* modelled.                                                               *)

\* the spacing of the f32 values around the integer m >= 0
RECURSIVE Ulp(_)
Ulp(m) == IF m < 2^24 THEN 1 ELSE 2 * Ulp(m \div 2)

\* n / d rounded to the nearest integer, ties to even (n >= 0, d > 0)
RoundEven(n, d) ==
    LET q == n \div d
        r == n - q * d
    IN  IF 2 * r < d THEN q
        ELSE IF 2 * r > d THEN q + 1
        ELSE IF q % 2 = 0 THEN q ELSE q + 1

RECURSIVE Norm(_, _)
Norm(m, e) ==
    IF m = 0 THEN <<0, 0>>
    ELSE IF m % 2 = 0 THEN Norm(m \div 2, e + 1)
    ELSE <<m, e>>

\* the f32 nearest to m * 2^e
F32(m, e) ==
    LET a == IF m < 0 THEN -m ELSE m
        r == RoundEven(a, Ulp(a)) * Ulp(a)
    IN  Norm(IF m < 0 THEN -r ELSE r, e)

\* an integer as f32
F(n) == F32(n, 0)

\* f32 + f32
FAdd(x, y) ==
    LET e == IF x[2] < y[2] THEN x[2] ELSE y[2]
    IN  F32(x[1] * 2^(x[2] - e) + y[1] * 2^(y[2] - e), e)

\* f32 * f32
FMul(x, y) == F32(x[1] * y[1], x[2] + y[2])

-----------------------------------------------------------------------------
(* ColorTransform *)

Multiply(r, g, b, a) == [k |-> "Multiply", c |-> <<r, g, b, a>>]
Add(r, g, b, a) == [k |-> "Add", c |-> <<r, g, b, a>>]
Combine(l, r) == [k |-> "Combine", l |-> l, r |-> r]

ColorIdentity == Add(F(0), F(0), F(0), F(0))

ColorCombineSwapped(self, other) == Combine(other, self)

ColorCombine(self, other) ==
    IF self.k = "Multiply" /\ other.k = "Multiply"
    THEN Multiply(FMul(self.c[1], other.c[1]), FMul(self.c[2], other.c[2]),
                  FMul(self.c[3], other.c[3]), FMul(self.c[4], other.c[4]))
    ELSE IF self.k = "Add" /\ other.k = "Add"
    THEN Add(FAdd(self.c[1], other.c[1]), FAdd(self.c[2], other.c[2]),
             FAdd(self.c[3], other.c[3]), FAdd(self.c[4], other.c[4]))
    ELSE Combine(self, other)

RECURSIVE ColorFoldRightFirst(_, _)
ColorFoldRightFirst(self, color) ==
    CASE self.k = "Multiply" ->
            <<FMul(color[1], self.c[1]), FMul(color[2], self.c[2]),
              FMul(color[3], self.c[3]), FMul(color[4], self.c[4])>>
      [] self.k = "Add" ->
            <<FAdd(color[1], self.c[1]), FAdd(color[2], self.c[2]),
              FAdd(color[3], self.c[3]), FAdd(color[4], self.c[4])>>
      [] self.k = "Combine" ->
            ColorFoldRightFirst(self.l, ColorFoldRightFirst(self.r, color))

RECURSIVE ColorFold(_, _)
ColorFold(self, color) ==
    CASE self.k = "Multiply" ->
            <<FMul(color[1], self.c[1]), FMul(color[2], self.c[2]),
              FMul(color[3], self.c[3]), FMul(color[4], self.c[4])>>
      [] self.k = "Add" ->
            <<FAdd(color[1], self.c[1]), FAdd(color[2], self.c[2]),
              FAdd(color[3], self.c[3]), FAdd(color[4], self.c[4])>>
      [] self.k = "Combine" -> ColorFold(self.r, ColorFold(self.l, color))

-----------------------------------------------------------------------------
(* euclid Transform2D: <<m11, m12, m21, m22, m31, m32>>, row vectors *)

PosIdentity == <<1, 0, 0, 1, 0, 0>>

\* Transform2D::then: self first, other second
Then(a, b) ==
    <<a[1] * b[1] + a[2] * b[3],
      a[1] * b[2] + a[2] * b[4],
      a[3] * b[1] + a[4] * b[3],
      a[3] * b[2] + a[4] * b[4],
      a[5] * b[1] + a[6] * b[3] + b[5],
      a[5] * b[2] + a[6] * b[4] + b[6]>>

\* Transform2D::transform_point
TransformPoint(m, p) ==
    <<p[1] * m[1] + p[2] * m[3] + m[5], p[1] * m[2] + p[2] * m[4] + m[6]>>

-----------------------------------------------------------------------------
(* SpriteTransform *)

Identity == [position |-> PosIdentity, color |-> ColorIdentity]

SpriteCombine(self, other) ==
    [position |-> Then(self.position, other.position),
     color |-> ColorCombine(self.color, other.color)]

Translate(x, y) == [position |-> <<1, 0, 0, 1, x, y>>, color |-> ColorIdentity]

Rotate(rx0, ry0, rx1, ry1) ==
    [position |-> <<rx0, ry0, rx1, ry1, 0, 0>>, color |-> ColorIdentity]

Scale(sx, sy) == [position |-> <<sx, 0, 0, sy, 0, 0>>, color |-> ColorIdentity]

ColorMultiply(r, g, b, a) == [position |-> PosIdentity, color |-> Multiply(r, g, b, a)]

ColorAdd(r, g, b, a) == [position |-> PosIdentity, color |-> Add(r, g, b, a)]

-----------------------------------------------------------------------------
(* FrameData, TransformTable and FrameReader *)

EmptyTable == [colors |-> <<>>, rotations |-> <<>>, translations |-> <<>>]

FrameReaderNewStale(data, transform) ==
    [data |-> data, transform |-> transform,
     position |-> Cardinality({s \in DOMAIN status : status[s] # "idle"})]

FrameReaderNew(data, transform) ==
    [data |-> data, transform |-> transform, position |-> 0]

Seek(r, position) == [r EXCEPT !.position = position]

\* Each read returns the reader after the read and the Option it yields.
ReadInt(r) ==
    LET e == Get(r.data.vec, r.position)
    IN  IF e.some
        THEN [reader |-> [r EXCEPT !.position = @ + 1], value |-> e]
        ELSE [reader |-> r, value |-> NoneV]

ReadTranslationUnchecked(r) ==
    LET i == ReadInt(r)
        pool == r.transform.translations
        x == Get(pool, i.value.v)
        y == Get(pool, i.value.v + 1)
    IN  IF ~i.value.some THEN i
        ELSE IF ~x.some THEN [reader |-> i.reader, value |-> NoneV]
        ELSE IF ~y.some THEN [reader |-> i.reader, value |-> Some(Translate(x.v, 0))]
        ELSE [reader |-> i.reader, value |-> Some(Translate(x.v, y.v))]

ReadTranslation(r) ==
    LET i == ReadInt(r)
        pool == r.transform.translations
        x == Get(pool, i.value.v)
        y == Get(pool, i.value.v + 1)
    IN  IF ~i.value.some THEN i
        ELSE IF ~x.some \/ ~y.some THEN [reader |-> i.reader, value |-> NoneV]
        ELSE [reader |-> i.reader, value |-> Some(Translate(x.v, y.v))]

ReadRotation(r) ==
    LET i == ReadInt(r)
        pool == r.transform.rotations
        rx0 == Get(pool, i.value.v)
        rx1 == Get(pool, i.value.v + 1)
        ry0 == Get(pool, i.value.v + 2)
        ry1 == Get(pool, i.value.v + 3)
    IN  IF ~i.value.some THEN i
        ELSE IF ~rx0.some \/ ~rx1.some \/ ~ry0.some \/ ~ry1.some
        THEN [reader |-> i.reader, value |-> NoneV]
        ELSE [reader |-> i.reader, value |-> Some(Rotate(rx0.v, rx1.v, ry0.v, ry1.v))]

ReadColorMultiply(r) ==
    LET i == ReadInt(r)
        pool == r.transform.colors
        cr == Get(pool, i.value.v)
        cg == Get(pool, i.value.v + 1)
        cb == Get(pool, i.value.v + 2)
        ca == Get(pool, i.value.v + 3)
    IN  IF ~i.value.some THEN i
        ELSE IF ~cr.some \/ ~cg.some \/ ~cb.some \/ ~ca.some
        THEN [reader |-> i.reader, value |-> NoneV]
        ELSE [reader |-> i.reader, value |-> Some(ColorMultiply(cr.v, cg.v, cb.v, ca.v))]

ReadColorAdd(r) ==
    LET i == ReadInt(r)
        pool == r.transform.colors
        cr == Get(pool, i.value.v)
        cg == Get(pool, i.value.v + 1)
        cb == Get(pool, i.value.v + 2)
        ca == Get(pool, i.value.v + 3)
    IN  IF ~i.value.some THEN i
        ELSE IF ~cr.some \/ ~cg.some \/ ~cb.some \/ ~ca.some
        THEN [reader |-> i.reader, value |-> NoneV]
        ELSE [reader |-> i.reader, value |-> Some(ColorAdd(cr.v, cg.v, cb.v, ca.v))]

ReadSub(r, kind) ==
    CASE kind = "rotation" -> ReadRotation(r)
      [] kind = "translation" -> ReadTranslation(r)
      [] kind = "color_multiply" -> ReadColorMultiply(r)
      [] kind = "color_add" -> ReadColorAdd(r)

\* The arms of the match in read_transformation: the reads of each tag, in
\* the order the arm evaluates them.
TagReadsTranslationFirst(tag) ==
    CASE tag = 0 -> <<>>
      [] tag = 1 -> <<"rotation">>
      [] tag = 2 -> <<"translation">>
      [] tag = 3 -> <<"translation", "rotation">>
      [] tag = 4 -> <<"color_multiply">>
      [] tag = 5 -> <<"color_multiply", "rotation">>
      [] tag = 6 -> <<"color_multiply", "translation">>
      [] tag = 7 -> <<"color_multiply", "translation", "rotation">>
      [] tag = 8 -> <<"color_add">>
      [] tag = 9 -> <<"color_add", "rotation">>
      [] tag = 10 -> <<"color_add", "translation">>
      [] tag = 11 -> <<"color_add", "translation", "rotation">>
      [] tag = 12 -> <<"color_multiply", "color_add">>
      [] tag = 13 -> <<"color_multiply", "color_add", "rotation">>
      [] tag = 14 -> <<"color_multiply", "color_add", "translation">>
      [] tag = 15 -> <<"color_multiply", "color_add", "translation", "rotation">>

TagReads(tag) ==
    CASE tag = 0 -> <<>>
      [] tag = 1 -> <<"rotation">>
      [] tag = 2 -> <<"translation">>
      [] tag = 3 -> <<"rotation", "translation">>
      [] tag = 4 -> <<"color_multiply">>
      [] tag = 5 -> <<"color_multiply", "rotation">>
      [] tag = 6 -> <<"color_multiply", "translation">>
      [] tag = 7 -> <<"color_multiply", "rotation", "translation">>
      [] tag = 8 -> <<"color_add">>
      [] tag = 9 -> <<"color_add", "rotation">>
      [] tag = 10 -> <<"color_add", "translation">>
      [] tag = 11 -> <<"color_add", "rotation", "translation">>
      [] tag = 12 -> <<"color_multiply", "color_add">>
      [] tag = 13 -> <<"color_multiply", "color_add", "rotation">>
      [] tag = 14 -> <<"color_multiply", "color_add", "translation">>
      [] tag = 15 -> <<"color_multiply", "color_add", "rotation", "translation">>

\* a?.combine(b?).combine(c?)...: the reads left to right, the first None
\* ending the arm, `acc` the value combined so far.
RECURSIVE ReadChain(_, _, _)
ReadChain(r, reads, acc) ==
    IF reads = <<>> THEN [reader |-> r, value |-> acc]
    ELSE LET n == ReadSub(r, Head(reads))
         IN  IF ~n.value.some THEN n
             ELSE ReadChain(n.reader, Tail(reads),
                            IF acc.some THEN Some(SpriteCombine(acc.v, n.value.v))
                            ELSE n.value)

ReadTransformation(r) ==
    LET tag == ReadInt(r)
    IN  IF ~tag.value.some THEN tag
        ELSE IF tag.value.v = 0 THEN [reader |-> tag.reader, value |-> Some(Identity)]
        ELSE IF tag.value.v \in 1..15
        THEN ReadChain(tag.reader, TagReads(tag.value.v), NoneV)
        ELSE [reader |-> tag.reader, value |-> NoneV]

-----------------------------------------------------------------------------
(* euclid Box2D: [min |-> <<x, y>>, max |-> <<x, y>>] *)

MinOf(S) == CHOOSE x \in S : \A y \in S : x <= y
MaxOf(S) == CHOOSE x \in S : \A y \in S : x >= y

BoxDefault == [min |-> <<0, 0>>, max |-> <<0, 0>>]

\* Box2D::is_empty
BoxIsEmpty(b) == ~(b.max[1] > b.min[1] /\ b.max[2] > b.min[2])

\* Box2D::union: an empty box contributes nothing
BoxUnion(self, other) ==
    IF BoxIsEmpty(other) THEN self
    ELSE IF BoxIsEmpty(self) THEN other
    ELSE [min |-> <<MinOf({self.min[1], other.min[1]}), MinOf({self.min[2], other.min[2]})>>,
          max |-> <<MaxOf({self.max[1], other.max[1]}), MaxOf({self.max[2], other.max[2]})>>]

\* Box2D::from_origin_and_size
BoxFromOriginAndSize(origin, size) ==
    [min |-> origin, max |-> <<origin[1] + size[1], origin[2] + size[2]>>]

\* Transform2D::outer_transformed_box: the box of the four transformed corners
OuterTransformedBox(m, b) ==
    LET pts == {TransformPoint(m, b.min), TransformPoint(m, b.max),
                TransformPoint(m, <<b.max[1], b.min[2]>>),
                TransformPoint(m, <<b.min[1], b.max[2]>>)}
    IN  [min |-> <<MinOf({q[1] : q \in pts}), MinOf({q[2] : q \in pts})>>,
         max |-> <<MaxOf({q[1] : q \in pts}), MaxOf({q[2] : q \in pts})>>]

MeasureRenderNoOffset(box, shape, transform) ==
    BoxUnion(OuterTransformedBox(transform.position,
                 BoxFromOriginAndSize(<<0, 0>>, <<shape.width, shape.height>>)),
             box)

\* impl Render for Measure: render
MeasureRender(box, shape, transform) ==
    BoxUnion(OuterTransformedBox(transform.position,
                 BoxFromOriginAndSize(<<shape.offset_x, shape.offset_y>>,
                                      <<shape.width, shape.height>>)),
             box)

-----------------------------------------------------------------------------
(* Sprite and the selection of its children for one frame *)

\* a frame count that divides by 2 whatever the action list
FrameCountStride2(sprite) ==
    IF sprite.payload.tag = "Indexed" THEN Len(sprite.payload.frame_pos) \div 2 ELSE 1

\* a frame count that counts a last, partial stride of positions as a frame
FrameCountRoundedUp(sprite) ==
    IF sprite.payload.tag = "Indexed"
    THEN (Len(sprite.payload.frame_pos)
             + (IF Len(sprite.payload.action_info) = 0 THEN 1 ELSE 2))
             \div (IF Len(sprite.payload.action_info) = 0 THEN 2 ELSE 3)
    ELSE 1

\* Sprite::frame_count
FrameCount(sprite) ==
    IF sprite.payload.tag = "Indexed"
    THEN Len(sprite.payload.frame_pos)
             \div (IF Len(sprite.payload.action_info) = 0 THEN 2 ELSE 3)
    ELSE 1

\* iter().skip(n).take(k)
SkipTake(vec, n, k) ==
    SubSeq(vec, n + 1, IF n + k < Len(vec) THEN n + k ELSE Len(vec))

\* what render_sprite settles before its loop: a panic, or the position it
\* seeks the reader to (None: no seek) and the child ids of the loop
Selected(seek, kids) == [panic |-> "", seek |-> seek, kids |-> kids]
Panicked(why) == [panic |-> why, seek |-> NoneV, kids |-> <<>>]

IndexedSelectAt(sprite, index) ==
    LET frame_pos == sprite.payload.frame_pos
        sprite_info == sprite.payload.sprite_info
        offset == Get(frame_pos, index)
        current == Get(frame_pos, index + 1)
        count == Get(sprite_info, AsUsize(current.v))
    IN  IF ~offset.some \/ ~current.some THEN Panicked("panic_index")
        ELSE IF ~count.some THEN Panicked("panic_index")
        ELSE Selected(Some(AsUsize(offset.v)),
                      SkipTake(sprite_info, AsUsize(current.v) + 1, AsUsize(count.v)))

IndexedSelectStride2(sprite, frame) ==
    IF FrameCount(sprite) = 0 THEN Panicked("panic_div")
    ELSE IndexedSelectAt(sprite, (frame % FrameCount(sprite)) * 2)

IndexedSelectClamped(sprite, frame) ==
    LET mult == IF sprite.payload.action_info = <<>> THEN 2 ELSE 3
        last == FrameCount(sprite) - 1
    IN  IF FrameCount(sprite) = 0 THEN Panicked("panic_div")
        ELSE IndexedSelectAt(sprite, (IF frame < last THEN frame ELSE last) * mult)

\* the Indexed arm of render_sprite up to the loop
IndexedSelect(sprite, frame) ==
    LET mult == IF sprite.payload.action_info = <<>> THEN 2 ELSE 3
    IN  IF FrameCount(sprite) = 0 THEN Panicked("panic_div")
        ELSE IndexedSelectAt(sprite, (frame % FrameCount(sprite)) * mult)

\* render_sprite up to the loops: only the Indexed arm seeks the reader
SelectChildren(sprite, frame) ==
    CASE sprite.payload.tag = "Single" -> Selected(NoneV, <<sprite.payload.sprite_id>>)
      [] sprite.payload.tag = "SingleNoAction" -> Selected(NoneV, <<sprite.payload.sprite_id>>)
      [] sprite.payload.tag = "SingleFrame" -> Selected(NoneV, sprite.payload.sprite_ids)
      [] sprite.payload.tag = "Indexed" -> IndexedSelect(sprite, frame)

TableOf(a) == IF a.transform.some THEN a.transform.v ELSE EmptyTable

ResolveShapeFirst(a, id) ==
    IF id \in DOMAIN a.shapes THEN "shape"
    ELSE IF id \in DOMAIN a.sprites THEN "sprite"
    ELSE "missing"

\* render_by_id: the sprite map first, then the shape map
Resolve(a, id) ==
    IF id \in DOMAIN a.sprites THEN "sprite"
    ELSE IF id \in DOMAIN a.shapes THEN "shape"
    ELSE "missing"

ChildTransformParentFirst(t, parent) == SpriteCombine(parent, t)

\* render_by_id: read_transformation().combine(parent)
ChildTransform(t, parent) == SpriteCombine(t, parent)

AdvanceRewound(top, rd) == [top EXCEPT !.idx = @ + 1]

\* the loop of render_sprite: the next child, the one reader moved on
Advance(top, rd) == [top EXCEPT !.idx = @ + 1, !.reader = rd]

-----------------------------------------------------------------------------
(* The animations of the model *)

RECURSIVE SeqsUpTo(_, _)
SeqsUpTo(S, n) ==
    IF n = 0 THEN {<<>>}
    ELSE LET shorter == SeqsUpTo(S, n - 1)
         IN  shorter \cup {Append(q, x) : q \in {t \in shorter : Len(t) = n - 1}, x \in S}

Zeros(n) == [i \in 1..n |-> 0]

Table1 ==
    [colors |-> <<F(2), F(3), F(1), F(1), F(2)>>,
     rotations |-> <<0, 1, -1, 0>>,
     translations |-> <<1, 2, 3>>]

Table2 ==
    [colors |-> <<F(1), F(2), F(2), F(1)>>,
     rotations |-> <<2, 0, 0, 1, 1, 1>>,
     translations |-> <<4, 1>>]

\* FrameData keeps the narrowest of the three widths that holds every entry
FrameDataOf(vec) ==
    [kind |-> IF \A i \in 1..Len(vec) : vec[i] < 256 THEN "Bytes"
              ELSE IF \A i \in 1..Len(vec) : vec[i] < 65536 THEN "Shorts"
              ELSE "Ints",
     vec |-> vec]

ChildIds == {1, 2, 3, 4}

Single(c, a) == [tag |-> "Single", sprite_id |-> c, action_info |-> a]
SingleNoAction(c) == [tag |-> "SingleNoAction", sprite_id |-> c]
SingleFrame(cs, a) == [tag |-> "SingleFrame", sprite_ids |-> cs, action_info |-> a]
Indexed(fp, info, a) ==
    [tag |-> "Indexed", frame_pos |-> fp, sprite_info |-> info, action_info |-> a]

MkSprite(id, payload, vec) ==
    [id |-> id, frame_data |-> FrameDataOf(vec), payload |-> payload]

\* frame-position tables: whole and partial strides, entries out of range
FramePositions ==
    {<<>>, <<0, 0, 1, 2>>, <<0, 0, 0, 2, 2, 0>>, <<1, -1>>, <<-1, 0, 0>>, <<0, 5>>}

\* child-id tables: a count followed by ids; counts that fit, exceed the
\* table, are negative or zero
SpriteInfos ==
    {<<1, 3, 2, 3, 2>>, <<2, 3>>, <<-1, 3, 0, 4>>}

TopPayloads ==
    {Single(c, <<>>) : c \in ChildIds}
        \cup {SingleNoAction(c) : c \in {2, 3}}
        \cup {SingleFrame(cs, <<>>) : cs \in SeqsUpTo(ChildIds, MaxKids)}
        \cup {Indexed(fp, info, a) :
                 fp \in FramePositions, info \in SpriteInfos, a \in {<<>>, <<7>>}}

TopTapes == {<<>>, <<0, 2, 0, 3, 0, 1>>, <<6, 0, 1, 1, 0, 16>>}

TopSprites == {MkSprite(1, pl, t) : pl \in TopPayloads, t \in TopTapes}

LowerSprites ==
    {MkSprite(2, Single(3, <<>>), <<2, 1>>),
     MkSprite(2, Single(3, <<>>), <<>>),
     MkSprite(2, SingleFrame(<<3, 1>>, <<>>), <<1, 0, 0>>),
     MkSprite(2, Indexed(<<0, 0, 2, 0>>, <<1, 3>>, <<>>), <<0, 0, 2, 0>>)}

ShapeOf(id, flat) ==
    IF id = 2
    THEN [id |-> 2, width |-> 2, height |-> 1, offset_x |-> 1, offset_y |-> 0]
    ELSE [id |-> id, width |-> 1, height |-> IF flat THEN 0 ELSE 2,
          offset_x |-> -1, offset_y |-> 1]

ShapeMaps ==
    {[id \in {3} |-> ShapeOf(id, FALSE)],
     [id \in {2, 3} |-> ShapeOf(id, FALSE)],
     [id \in {2, 3} |-> ShapeOf(id, TRUE)]}

SpriteMaps(tops, lowers) ==
    {[id \in {1} |-> t] : t \in tops}
        \cup {[id \in {1, 2} |-> IF id = 1 THEN t ELSE l] : t \in tops, l \in lowers}

Animations ==
    {[shapes |-> sh, sprites |-> sp, transform |-> tt] :
        sh \in {m \in ShapeMaps : \A id \in DOMAIN m : m[id].height > 0},
        sp \in SpriteMaps(TopSprites, LowerSprites),
        tt \in {NoneV, Some(Table1)}}

\* the animations two invocations are run over side by side
PairTops ==
    {MkSprite(1, SingleFrame(<<3, 2, 4>>, <<>>), <<3, 0, 0, 6, 0, 1, 0>>),
     MkSprite(1, Indexed(<<0, 0, 1, 2>>, <<1, 3, 2, 3, 2>>, <<>>), <<0, 2, 0, 3, 0, 1>>),
     MkSprite(1, Indexed(<<0, 0, 7, 2, 2, 8>>, <<1, 2, 2, 3, 2>>, <<7>>), <<0, 2, 0, 3, 0, 1>>),
     MkSprite(1, Indexed(<<0, 0>>, <<2, 2, 3>>, <<>>), <<2, 1, 1, 0, 16>>)}

PairLowers ==
    {MkSprite(2, Single(3, <<>>), <<2, 1>>),
     MkSprite(2, SingleFrame(<<3, 1>>, <<>>), <<1, 0, 0>>),
     MkSprite(2, Indexed(<<0, 0, 2, 0>>, <<1, 3>>, <<>>), <<0, 0, 2, 0>>)}

PairAnimations ==
    {[shapes |-> sh, sprites |-> sp, transform |-> Some(Table1)] :
        sh \in ShapeMaps, sp \in SpriteMaps(PairTops, PairLowers)}

\* the external transforms of the outer call
Exts == {Identity, SpriteCombine(Scale(2, 2), Translate(1, 3))}

\* AppState::draw: a scale, then a translation
PairExts == {SpriteCombine(Scale(2, 2), Translate(1, 3))}

-----------------------------------------------------------------------------
(* The compositor: render_sprite and render_by_id as steps of an invocation *)

Sessions == {1, 2}

\* session 1 renders into a recording sink, session 2 into a Measure
SinkOf(s) == IF s = 1 THEN "record" ELSE "measure"

Last(q) == q[Len(q)]
Front(q) == SubSeq(q, 1, Len(q) - 1)

Event(ev, act, sprite, ord, id, pos, t, transform, kind, path, kids) ==
    [ev |-> ev, act |-> act, sprite |-> sprite, ord |-> ord, id |-> id, pos |-> pos,
     t |-> t, transform |-> transform, kind |-> kind, path |-> path, kids |-> kids]

Entered(tr) == Cardinality({i \in 1..Len(tr) : tr[i].ev = "enter"})

\* a call that selects its children one frame further at every level below
\* the outer call
EnterNextFrame(a, sprite, transform, frame, path, act) ==
    LET sel == SelectChildren(sprite, frame + (IF Len(path) > 0 THEN 1 ELSE 0))
        new == FrameReaderNew(sprite.frame_data, TableOf(a))
        rd == IF sel.seek.some THEN Seek(new, sel.seek.v) ELSE new
    IN  [panic |-> sel.panic,
         frame |-> [sprite |-> sprite.id, act |-> act, kids |-> sel.kids, idx |-> 0,
                    reader |-> rd, transform |-> transform, path |-> path],
         event |-> Event("enter", act, sprite.id, 0, 0, rd.position, NoneV,
                         Some(transform), sel.panic, path, sel.kids)]

\* The call render_sprite(animation, sprite, transform, frame) up to its loop:
\* a new reader over the sprite's own tape, which the Indexed arm seeks to the
\* offset of the frame.
Enter(a, sprite, transform, frame, path, act) ==
    LET sel == SelectChildren(sprite, frame)
        new == FrameReaderNew(sprite.frame_data, TableOf(a))
        rd == IF sel.seek.some THEN Seek(new, sel.seek.v) ELSE new
    IN  [panic |-> sel.panic,
         frame |-> [sprite |-> sprite.id, act |-> act, kids |-> sel.kids, idx |-> 0,
                    reader |-> rd, transform |-> transform, path |-> path],
         event |-> Event("enter", act, sprite.id, 0, 0, rd.position, NoneV,
                         Some(transform), sel.panic, path, sel.kids)]

\* an outer call that begins by emptying one sink all invocations write to
StartOnSharedSink(s, exts) ==
    /\ status[s] = "idle"
    /\ \E id \in DOMAIN anm.sprites, frame \in 0..MaxFrame, ext \in exts :
          LET e == Enter(anm, anm.sprites[id], ext, frame, <<>>, 1)
          IN  /\ input' = [input EXCEPT ![s] =
                              Some([sprite |-> id, frame |-> frame, transform |-> ext])]
              /\ status' = [status EXCEPT ![s] = IF e.panic # "" THEN e.panic ELSE "running"]
              /\ stack' = [stack EXCEPT ![s] = IF e.panic # "" THEN <<>> ELSE <<e.frame>>]
              /\ trace' = [trace EXCEPT ![s] = <<e.event>>]
              /\ out' = [x \in Sessions |-> <<>>]
              /\ bbox' = [bbox EXCEPT ![s] =
                             IF SinkOf(s) = "measure" THEN Some(BoxDefault) ELSE NoneV]
    /\ UNCHANGED <<anm, readVars, restVars>>

\* the outer render_sprite call of an invocation
Start(s, exts) ==
    /\ status[s] = "idle"
    /\ \E id \in DOMAIN anm.sprites, frame \in 0..MaxFrame, ext \in exts :
          LET e == Enter(anm, anm.sprites[id], ext, frame, <<>>, 1)
          IN  /\ input' = [input EXCEPT ![s] =
                              Some([sprite |-> id, frame |-> frame, transform |-> ext])]
              /\ status' = [status EXCEPT ![s] = IF e.panic # "" THEN e.panic ELSE "running"]
              /\ stack' = [stack EXCEPT ![s] = IF e.panic # "" THEN <<>> ELSE <<e.frame>>]
              /\ trace' = [trace EXCEPT ![s] = <<e.event>>]
              /\ out' = [out EXCEPT ![s] = <<>>]
              /\ bbox' = [bbox EXCEPT ![s] =
                             IF SinkOf(s) = "measure" THEN Some(BoxDefault) ELSE NoneV]
    /\ UNCHANGED <<anm, readVars, restVars>>

\* one call of render_by_id from the loop of the innermost render_sprite
RenderById(s) ==
    /\ status[s] = "running"
    /\ LET top == Last(stack[s])
           depth == Len(stack[s])
       IN  /\ top.idx < Len(top.kids)
           /\ LET id == top.kids[top.idx + 1]
                  rd == ReadTransformation(top.reader)
                  transform == ChildTransform(rd.value.v, top.transform)
                  path == Append(top.path, rd.value.v)
                  kind == Resolve(anm, id)
                  next == Advance(top, rd.reader)
                  act == Entered(trace[s]) + 1
                  e == Enter(anm, anm.sprites[id], transform, input[s].v.frame, path, act)
                  child(k, tv) == Event("child", top.act, top.sprite, top.idx + 1, id,
                                        top.reader.position, rd.value, tv, k, 
                                        IF rd.value.some THEN path ELSE top.path, <<>>)
              IN  IF ~rd.value.some
                  THEN \* expect("transormation should be present") panics
                       /\ status' = [status EXCEPT ![s] = "panic_transform"]
                       /\ trace' = [trace EXCEPT ![s] = Append(@, child("absent", NoneV))]
                       /\ UNCHANGED <<stack, out, bbox>>
                  ELSE IF kind = "sprite" /\ depth >= MaxDepth
                  THEN \* deeper than the model follows the recursion
                       /\ status' = [status EXCEPT ![s] = "overflow"]
                       /\ trace' = [trace EXCEPT ![s] =
                                       Append(@, child("sprite", Some(transform)))]
                       /\ UNCHANGED <<stack, out, bbox>>
                  ELSE IF kind = "sprite"
                  THEN /\ status' = [status EXCEPT ![s] =
                                        IF e.panic # "" THEN e.panic ELSE "running"]
                       /\ stack' = [stack EXCEPT ![s] =
                                       IF e.panic # "" THEN Append(Front(@), next)
                                       ELSE Append(Front(@), next) \o <<e.frame>>]
                       /\ trace' = [trace EXCEPT ![s] =
                                       @ \o <<child("sprite", Some(transform)), e.event>>]
                       /\ UNCHANGED <<out, bbox>>
                  ELSE IF kind = "shape"
                  THEN /\ out' = [out EXCEPT ![s] =
                                     Append(@, [shape |-> anm.shapes[id],
                                                transform |-> transform])]
                       /\ bbox' = [bbox EXCEPT ![s] =
                                      IF SinkOf(s) = "measure"
                                      THEN Some(MeasureRender(@.v, anm.shapes[id], transform))
                                      ELSE @]
                       /\ stack' = [stack EXCEPT ![s] = Append(Front(@), next)]
                       /\ trace' = [trace EXCEPT ![s] =
                                       Append(@, child("shape", Some(transform)))]
                       /\ UNCHANGED status
                  ELSE /\ stack' = [stack EXCEPT ![s] = Append(Front(@), next)]
                       /\ trace' = [trace EXCEPT ![s] =
                                       Append(@, child("missing", Some(transform)))]
                       /\ UNCHANGED <<status, out, bbox>>
    /\ UNCHANGED <<anm, input, readVars, restVars>>

\* the loop of the innermost render_sprite is over: the call returns
Return(s) ==
    /\ status[s] = "running"
    /\ LET top == Last(stack[s])
       IN  /\ top.idx = Len(top.kids)
           /\ stack' = [stack EXCEPT ![s] = Front(@)]
           /\ status' = [status EXCEPT ![s] = IF Len(stack[s]) = 1 THEN "done" ELSE @]
           /\ trace' = [trace EXCEPT ![s] =
                           Append(@, Event("return", top.act, top.sprite, 0, 0, 0, NoneV,
                                           NoneV, "", <<>>, <<>>))]
    /\ UNCHANGED <<anm, input, out, bbox, readVars, restVars>>

IdleReader ==
    /\ reader = FrameReaderNew(FrameDataOf(<<>>), EmptyTable)
    /\ result = NoneV
    /\ before = NoneV

IdleSessions ==
    /\ status = [s \in Sessions |-> "idle"]
    /\ input = [s \in Sessions |-> NoneV]
    /\ stack = [s \in Sessions |-> <<>>]
    /\ out = [s \in Sessions |-> <<>>]
    /\ bbox = [s \in Sessions |-> NoneV]
    /\ trace = [s \in Sessions |-> <<>>]

\* one invocation, over any animation of the model
Init ==
    /\ anm \in Animations
    /\ IdleSessions /\ IdleReader /\ IdleColor /\ IdleDecode /\ IdleGui /\ IdleHost

Next == Start(1, Exts) \/ RenderById(1) \/ Return(1)

Spec == Init /\ [][Next]_vars

\* two invocations over one animation, their steps interleaved
InitPair ==
    /\ anm \in PairAnimations
    /\ IdleSessions /\ IdleReader /\ IdleColor /\ IdleDecode /\ IdleGui /\ IdleHost

NextPair == \E s \in Sessions : Start(s, PairExts) \/ RenderById(s) \/ Return(s)

SpecPair == InitPair /\ [][NextPair]_vars

-----------------------------------------------------------------------------
(* The tape reader on its own: any tape, any table, seek and read *)

ReaderTables == {EmptyTable, Table1, Table2}

\* the widest read_transformation: a tag and four offsets
ReaderBodies ==
    {<<>>} \cup {<<tag>> \o offs : tag \in 0..MaxTag, offs \in SeqsUpTo(0..MaxOff, 4)}

ReaderTapes == {Zeros(n) \o body : n \in 0..MaxSeek, body \in ReaderBodies}

IdleTraversal ==
    /\ anm = [shapes |-> <<>>, sprites |-> <<>>, transform |-> NoneV]
    /\ IdleSessions

InitReader ==
    /\ IdleTraversal /\ IdleColor /\ IdleDecode /\ IdleGui /\ IdleHost
    /\ reader \in {FrameReaderNew(FrameDataOf(t), tt) : t \in ReaderTapes, tt \in ReaderTables}
    /\ result = NoneV
    /\ before = NoneV

\* FrameReader::seek, as render_sprite uses it: on a new reader
SeekTo(p) ==
    /\ ~before.some
    /\ reader.position = 0
    /\ reader' = Seek(reader, p)
    /\ UNCHANGED <<result, before>>
    /\ UNCHANGED <<travVars, restVars>>

\* FrameReader::read_transformation
Read ==
    /\ LET res == ReadTransformation(reader)
       IN  /\ reader' = res.reader
           /\ result' = res.value
           /\ before' = Some(reader)
    /\ UNCHANGED <<travVars, restVars>>

NextReader == (\E p \in 1..MaxSeek : SeekTo(p)) \/ Read

SpecReader == InitReader /\ [][NextReader]_vars

-----------------------------------------------------------------------------
(* What a tag asks for, from its bits: rotation 1, translation 2,          *)
(* colour multiply 4, colour add 8.                                        *)

HasBit(t, b) == (t \div b) % 2 = 1

SubOrder ==
    <<[bit |-> 4, kind |-> "color_multiply"], [bit |-> 8, kind |-> "color_add"],
      [bit |-> 1, kind |-> "rotation"], [bit |-> 2, kind |-> "translation"]>>

RECURSIVE SubsOfFrom(_, _)
SubsOfFrom(t, i) ==
    IF i > Len(SubOrder) THEN <<>>
    ELSE (IF HasBit(t, SubOrder[i].bit) THEN <<SubOrder[i].kind>> ELSE <<>>)
         \o SubsOfFrom(t, i + 1)

SubsOf(t) == SubsOfFrom(t, 1)

PoolOf(table, kind) ==
    CASE kind = "rotation" -> table.rotations
      [] kind = "translation" -> table.translations
      [] OTHER -> table.colors

WidthOf(kind) == IF kind = "translation" THEN 2 ELSE 4

SubAt(table, kind, o) ==
    LET pool == PoolOf(table, kind)
    IN  CASE kind = "rotation" -> Rotate(pool[o + 1], pool[o + 2], pool[o + 3], pool[o + 4])
          [] kind = "translation" -> Translate(pool[o + 1], pool[o + 2])
          [] kind = "color_multiply" ->
                ColorMultiply(pool[o + 1], pool[o + 2], pool[o + 3], pool[o + 4])
          [] kind = "color_add" -> ColorAdd(pool[o + 1], pool[o + 2], pool[o + 3], pool[o + 4])

\* the entry of the tape at zero-based position p
TapeAt(r, p) == r.data.vec[p + 1]

TapeEndsBeforeTag(r) == r.position >= Len(r.data.vec)

TagOutOfRange(r) == ~TapeEndsBeforeTag(r) /\ TapeAt(r, r.position) \notin 0..15

TapeEndsBeforeOffset(r) ==
    /\ ~TapeEndsBeforeTag(r)
    /\ TapeAt(r, r.position) \in 0..15
    /\ r.position + Len(SubsOf(TapeAt(r, r.position))) >= Len(r.data.vec)

OffsetOutsidePool(r) ==
    /\ ~TapeEndsBeforeTag(r)
    /\ TapeAt(r, r.position) \in 0..15
    /\ LET subs == SubsOf(TapeAt(r, r.position))
       IN  \E j \in 1..Len(subs) :
               /\ r.position + j < Len(r.data.vec)
               /\ TapeAt(r, r.position + j) + WidthOf(subs[j])
                      > Len(PoolOf(r.transform, subs[j]))

RECURSIVE CombineAll(_)
CombineAll(ts) ==
    IF Len(ts) = 1 THEN ts[1]
    ELSE SpriteCombine(CombineAll(SubSeq(ts, 1, Len(ts) - 1)), ts[Len(ts)])

\* C1: read_transformation yields None exactly when the tape ends before the
\* tag, the tag is outside 0..15, the tape ends before an offset the tag needs,
\* or an offset addresses an element outside its pool; otherwise it yields a
\* transform.
C1_AbsentExactly ==
    before.some =>
        (~result.some <=>
            \/ TapeEndsBeforeTag(before.v)
            \/ TagOutOfRange(before.v)
            \/ TapeEndsBeforeOffset(before.v)
            \/ OffsetOutsidePool(before.v))

C1_Witness ==
    /\ before.some
    /\ ~result.some
    /\ OffsetOutsidePool(before.v)
    /\ ~TapeEndsBeforeOffset(before.v)
    /\ Len(SubsOf(TapeAt(before.v, before.v.position))) >= 2

\* C3: a read_transformation that yields a transform for tag t consumes the
\* tag and one offset per set bit of t, in the order colour multiply, colour
\* add, rotation, translation, and yields the left-to-right combine of exactly
\* the sub-transforms whose bits are set (the identity for tag 0).
C3_BitsOrderAndCombine ==
    (before.some /\ result.some) =>
        LET r == before.v
            t == TapeAt(r, r.position)
            subs == SubsOf(t)
        IN  /\ t \in 0..15
            /\ reader.position = r.position + 1 + Len(subs)
            /\ result.v =
                  IF subs = <<>> THEN Identity
                  ELSE CombineAll([j \in 1..Len(subs) |->
                           SubAt(r.transform, subs[j], TapeAt(r, r.position + j))])

C3_Witness ==
    /\ before.some
    /\ result.some
    /\ TapeAt(before.v, before.v.position) = 15
    /\ before.v.position > 0

-----------------------------------------------------------------------------
(* Reading the history of an invocation *)

Final(s) == status[s] \notin {"idle", "running"}

Enters(tr) == SelectSeq(tr, LAMBDA e : e.ev = "enter")

\* the render_by_id calls made by the render_sprite call `act`, in order
ChildrenOf(tr, act) == SelectSeq(tr, LAMBDA e : e.ev = "child" /\ e.act = act)

Returned(tr, act) == \E i \in 1..Len(tr) : tr[i].ev = "return" /\ tr[i].act = act

Ids(evs) == [i \in 1..Len(evs) |-> evs[i].id]

IsPrefix(p, q) == Len(p) <= Len(q) /\ \A i \in 1..Len(p) : p[i] = q[i]

\* C2: a child reference whose tape read yields None is skipped and nothing
\* else happens: the invocation goes on to the next sibling, emits nothing for
\* the child and does not abort.
C2_AbsentChildIsSkipped ==
    [][\A s \in Sessions :
          (/\ status[s] = "running"
           /\ Last(stack[s]).idx < Len(Last(stack[s]).kids)
           /\ ~ReadTransformation(Last(stack[s]).reader).value.some
           /\ trace'[s] # trace[s])
          => (/\ status'[s] = "running"
              /\ Len(stack'[s]) = Len(stack[s])
              /\ Last(stack'[s]).idx = Last(stack[s]).idx + 1
              /\ out'[s] = out[s])]_vars

-----------------------------------------------------------------------------
(* C4: the Indexed arm, from the words of the claim *)

StrideOf(sprite) == IF sprite.payload.action_info # <<>> THEN 3 ELSE 2

IndexOf(sprite, f) == (f % (Len(sprite.payload.frame_pos) \div StrideOf(sprite))) * StrideOf(sprite)

OffsetOf(sprite, f) == sprite.payload.frame_pos[IndexOf(sprite, f) + 1]

CurrentOf(sprite, f) == sprite.payload.frame_pos[IndexOf(sprite, f) + 2]

CountOf(sprite, f) == sprite.payload.sprite_info[CurrentOf(sprite, f) + 1]

\* the entries of the child-id table at positions current+1 .. current+count
\* that the table holds (count read as an unsigned number)
HeldEntries(sprite, f) ==
    LET info == sprite.payload.sprite_info
        first == CurrentOf(sprite, f) + 1
        n == IF CountOf(sprite, f) < 0 \/ first + CountOf(sprite, f) > Len(info)
             THEN Len(info) - first
             ELSE CountOf(sprite, f)
    IN  [j \in 1..n |-> info[first + j]]

\* the render_sprite calls on an Indexed sprite that got to their loop
IndexedCalls(s) ==
    {i \in 1..Len(trace[s]) :
        /\ trace[s][i].ev = "enter"
        /\ trace[s][i].kind = ""
        /\ anm.sprites[trace[s][i].sprite].payload.tag = "Indexed"}

\* C4 as claimed: a render_sprite call on an Indexed sprite that has returned
\* started its reader at offset and rendered exactly the count entries at
\* positions current+1 .. current+count of the child-id table, in table order.
C4_ExactlyCountEntries ==
    \A s \in Sessions : \A i \in IndexedCalls(s) :
        LET e == trace[s][i]
            sprite == anm.sprites[e.sprite]
            f == input[s].v.frame
            ids == Ids(ChildrenOf(trace[s], e.act))
        IN  Returned(trace[s], e.act) =>
                /\ e.pos = AsUsize(OffsetOf(sprite, f))
                /\ Len(ids) = AsUsize(CountOf(sprite, f))
                /\ \A j \in 1..Len(ids) :
                       ids[j] = sprite.payload.sprite_info[CurrentOf(sprite, f) + 1 + j]

\* C4 amended: stride 3 iff the action-id list is non-empty, index =
\* (f mod frame_count) * stride, the reader starts at offset, and the children
\* rendered are, in table order, the entries at positions current+1 ..
\* current+count that the child-id table holds and no others: at any moment a
\* prefix of them, and all of them once the call has returned.
C4_HeldEntriesInOrder ==
    \A s \in Sessions : \A i \in IndexedCalls(s) :
        LET e == trace[s][i]
            sprite == anm.sprites[e.sprite]
            f == input[s].v.frame
            ids == Ids(ChildrenOf(trace[s], e.act))
        IN  /\ e.pos = AsUsize(OffsetOf(sprite, f))
            /\ IsPrefix(ids, HeldEntries(sprite, f))
            /\ Returned(trace[s], e.act) => ids = HeldEntries(sprite, f)

C4_Witness ==
    \E i \in IndexedCalls(1) :
        LET e == trace[1][i]
            sprite == anm.sprites[e.sprite]
            f == input[1].v.frame
        IN  /\ Returned(trace[1], e.act)
            /\ StrideOf(sprite) = 3
            /\ IndexOf(sprite, f) > 0
            /\ CountOf(sprite, f) = 2
            /\ Len(ChildrenOf(trace[1], e.act)) = 2

-----------------------------------------------------------------------------
(* C6, C7, C8: render_by_id *)

ShapeCalls(tr) == SelectSeq(tr, LAMBDA e : e.ev = "child" /\ e.kind = "shape")

\* C6: a child id whose transformation was read is looked up in the sprite map
\* first: an id of the sprite map is rendered as that sprite (render_sprite is
\* entered on it, also when the shape map has the id too, and nothing is
\* emitted for it); otherwise an id of the shape map is emitted to the sink as
\* that shape; an id of neither map emits nothing and raises no error, and the
\* siblings after it are still processed: every call that returns has gone
\* through all of its children.
C6_SpriteThenShapeElseSkip ==
    \A s \in Sessions :
        LET tr == trace[s]
            shapeCalls == ShapeCalls(tr)
        IN  /\ \A i \in 1..Len(tr) :
                   (tr[i].ev = "child" /\ tr[i].t.some) =>
                       /\ tr[i].id \in DOMAIN anm.sprites =>
                              /\ tr[i].kind = "sprite"
                              /\ i < Len(tr) =>
                                     tr[i + 1].ev = "enter" /\ tr[i + 1].sprite = tr[i].id
                       /\ (tr[i].id \notin DOMAIN anm.sprites /\ tr[i].id \in DOMAIN anm.shapes)
                              => tr[i].kind = "shape"
                       /\ (tr[i].id \notin DOMAIN anm.sprites /\ tr[i].id \notin DOMAIN anm.shapes)
                              => /\ tr[i].kind = "missing"
                                 /\ i = Len(tr) => status[s] = "running"
            /\ Len(out[s]) = Len(shapeCalls)
            /\ \A j \in 1..Len(shapeCalls) :
                   /\ shapeCalls[j].id \notin DOMAIN anm.sprites
                   /\ out[s][j].shape = anm.shapes[shapeCalls[j].id]
            /\ \A i \in 1..Len(tr) :
                   (tr[i].ev = "enter" /\ Returned(tr, tr[i].act)) =>
                       Ids(ChildrenOf(tr, tr[i].act)) = tr[i].kids

C6_Witness ==
    /\ status[1] = "done"
    /\ \E i, j \in 1..Len(trace[1]) :
          /\ i < j
          /\ trace[1][i].kind = "missing"
          /\ trace[1][j].act = trace[1][i].act
          /\ trace[1][j].kind = "sprite"
          /\ trace[1][j].id \in DOMAIN anm.shapes
    /\ Len(out[1]) > 0

\* the k-th read_transformation of a reader
RECURSIVE NthRead(_, _)
NthRead(r, k) ==
    IF k = 1 THEN ReadTransformation(r) ELSE NthRead(ReadTransformation(r).reader, k - 1)

\* a reader over the tape of sprite `id`, at position `start`
ReaderAt(id, start) ==
    [data |-> anm.sprites[id].frame_data, transform |-> TableOf(anm), position |-> start]

\* C7: in one render_sprite call the k-th child reference, whatever its id
\* resolves to, gets the k-th transformation read in sequence from the start
\* position of a reader over the tape of the sprite of that call (a nested
\* sprite thus reads its own tape from its own start), and its transform is
\* that transformation combined with the transform the call was given, the
\* same for every sibling; a nested sprite is given its reference's transform.
C7_OneSequentialReadPerChild ==
    \A s \in Sessions :
        LET tr == trace[s]
        IN  \A i \in 1..Len(tr) :
                tr[i].ev = "enter" =>
                    LET e == tr[i]
                        calls == ChildrenOf(tr, e.act)
                    IN  /\ anm.sprites[e.sprite].payload.tag # "Indexed" => e.pos = 0
                        /\ \A k \in 1..Len(calls) :
                               /\ calls[k].ord = k
                               /\ calls[k].t = NthRead(ReaderAt(e.sprite, e.pos), k).value
                               /\ calls[k].t.some =>
                                      calls[k].transform =
                                          Some(SpriteCombine(calls[k].t.v, e.transform.v))
                        /\ (i > 1 /\ tr[i - 1].ev = "child") =>
                               e.transform = tr[i - 1].transform

C7_Witness ==
    /\ status[1] = "done"
    /\ \E i, j \in 1..Len(trace[1]) :
          /\ trace[1][i].kind = "missing"
          /\ trace[1][j].ev = "child"
          /\ trace[1][j].act = trace[1][i].act
          /\ trace[1][j].ord = trace[1][i].ord + 1
          /\ trace[1][j].t # trace[1][i].t
          /\ trace[1][j].kind = "sprite"
          /\ \E k \in 1..Len(trace[1]) :
                /\ trace[1][k].ev = "child"
                /\ trace[1][k].act > trace[1][j].act
                /\ trace[1][k].t.some

\* t_d.combine(... t_2.combine(t_1.combine(E))) for the path <<t_1, ..., t_d>>
RECURSIVE Compose(_, _)
Compose(path, E) ==
    IF path = <<>> THEN E ELSE SpriteCombine(Last(path), Compose(Front(path), E))

\* the positions of the path applied innermost first, then E
RECURSIVE PositionsThen(_, _)
PositionsThen(path, E) ==
    IF path = <<>> THEN E.position
    ELSE Then(Head(path).position, PositionsThen(Tail(path), E))

ReversePath(path) == [i \in 1..Len(path) |-> path[Len(path) + 1 - i]]

\* C8: the transform given to the sink for a shape reached through the tape
\* transformations t_1 (outermost) .. t_d (innermost) under the external
\* transform E is t_d.combine(... t_1.combine(E)): its position is t_d then
\* ... then t_1 then E.
C8_ChildThenParent ==
    \A s \in Sessions :
        LET shapeCalls == ShapeCalls(trace[s])
        IN  \A j \in 1..Len(shapeCalls) :
                /\ j <= Len(out[s])
                /\ out[s][j].transform = Compose(shapeCalls[j].path, input[s].v.transform)
                /\ out[s][j].transform.position =
                       PositionsThen(ReversePath(shapeCalls[j].path), input[s].v.transform)

C8_Witness ==
    \E j \in 1..Len(out[1]) :
        LET path == ShapeCalls(trace[1])[j].path
        IN  /\ Len(path) = 2
            /\ Compose(path, input[1].v.transform)
                   # Compose(ReversePath(path), input[1].v.transform)
            /\ Compose(path, input[1].v.transform).position
                   # Then(input[1].v.transform.position,
                          Then(path[1].position, path[2].position))

-----------------------------------------------------------------------------
(* C5, C9, C10: two invocations over one animation *)

IsIndexed(id) == anm.sprites[id].payload.tag = "Indexed"

\* invocation 2 renders the sprite of invocation 1, an Indexed one, under the
\* same external transform, one frame count later
OnePeriodApart ==
    /\ Final(1) /\ Final(2)
    /\ input[1].v.sprite = input[2].v.sprite
    /\ input[1].v.transform = input[2].v.transform
    /\ IsIndexed(input[1].v.sprite)
    /\ input[2].v.frame = input[1].v.frame + FrameCount(anm.sprites[input[1].v.sprite])

\* every Indexed sprite an invocation entered has a frame count that divides n
\* (or none: a frame count of 0 stops every frame alike)
PeriodsDivide(s, n) ==
    \A i \in 1..Len(trace[s]) :
        (trace[s][i].ev = "enter" /\ IsIndexed(trace[s][i].sprite)) =>
            \/ FrameCount(anm.sprites[trace[s][i].sprite]) = 0
            \/ n % FrameCount(anm.sprites[trace[s][i].sprite]) = 0

\* C5 as claimed: an Indexed sprite with frame count N emits at frame f + N
\* the sequence it emits at frame f, nested sprites included.
C5_SameOutputOnePeriodLater == OnePeriodApart => out[1] = out[2]

\* C5 amended: an Indexed sprite with frame count N emits at frame f + N the
\* sequence it emits at frame f (and ends the same way) provided the frame
\* count of every Indexed sprite entered below it divides N: the frame number
\* is passed down unchanged, so a nested Indexed sprite cycles with its own
\* frame count, not with N.
C5_SameOutputWhenPeriodsDivide ==
    (/\ OnePeriodApart
     /\ PeriodsDivide(1, FrameCount(anm.sprites[input[1].v.sprite]))
     /\ PeriodsDivide(2, FrameCount(anm.sprites[input[1].v.sprite])))
        => (out[1] = out[2] /\ status[1] = status[2])

C5_Witness ==
    /\ OnePeriodApart
    /\ status[1] = "done" /\ status[2] = "done"
    /\ FrameCount(anm.sprites[input[1].v.sprite]) = 2
    /\ PeriodsDivide(1, 2) /\ PeriodsDivide(2, 2)
    /\ \E i \in 2..Len(trace[1]) :
          trace[1][i].ev = "enter" /\ IsIndexed(trace[1][i].sprite)
    /\ Len(out[1]) > 0

\* the rectangle of a shape under the position of a transform
Footprint(entry) ==
    LET sh == entry.shape
        m == entry.transform.position
        xs == {sh.offset_x, sh.offset_x + sh.width}
        ys == {sh.offset_y, sh.offset_y + sh.height}
        pts == {TransformPoint(m, <<x, y>>) : x \in xs, y \in ys}
    IN  [min |-> <<MinOf({q[1] : q \in pts}), MinOf({q[2] : q \in pts})>>,
         max |-> <<MaxOf({q[1] : q \in pts}), MaxOf({q[2] : q \in pts})>>]

Footprints(entries) == {Footprint(entries[j]) : j \in 1..Len(entries)}

\* the box around the rectangles that have an area; with none, any empty box
IsUnionOf(box, rects) ==
    LET solid == {r \in rects : r.max[1] > r.min[1] /\ r.max[2] > r.min[2]}
    IN  IF solid = {} THEN BoxIsEmpty(box)
        ELSE box = [min |-> <<MinOf({r.min[1] : r \in solid}), MinOf({r.min[2] : r \in solid})>>,
                    max |-> <<MaxOf({r.max[1] : r \in solid}), MaxOf({r.max[2] : r \in solid})>>]

SameInputs == Final(1) /\ Final(2) /\ input[1] = input[2]

-----------------------------------------------------------------------------
(* ColorTransform on its own: combine two transforms, fold the result      *)

\* the f32 nearest to (m + r / den) * 2^e, by long division: one more bit of
\* the quotient at a time until it has 24, the rest decides the rounding
RECURSIVE FLitFrom(_, _, _, _)
FLitFrom(m, r, den, e) ==
    IF m = 0 /\ r = 0 THEN <<0, 0>>
    ELSE IF m >= 2^23
    THEN F32(IF 2 * r > den \/ (2 * r = den /\ m % 2 = 1) THEN m + 1 ELSE m, e)
    ELSE FLitFrom(2 * m + (IF 2 * r >= den THEN 1 ELSE 0),
                  IF 2 * r >= den THEN 2 * r - den ELSE 2 * r, den, e - 1)

\* the f32 nearest to num / den (num >= 0, den > 0): what a decimal literal
\* denotes, and the quotient of two integers held in f32
FLit(num, den) == FLitFrom(num \div den, num % den, den, 0)

\* Color::WHITE
White == <<F(1), F(1), F(1), F(1)>>

\* the parameters of the Multiply and Add transforms and the colours folded
MultiplyParams ==
    {<<FLit(1, 2), FLit(1, 2), FLit(1, 2), F(1)>>,
     <<F(2), F(2), F(4097), F(1)>>,
     <<F(1), F(1), F(3), F(2)>>}

AddParams ==
    {<<FLit(1, 5), F(0), F(0), F(0)>>,
     <<F(0), F(1), F(1), F(1)>>,
     <<F(0), F(0), F(0), F(0)>>}

FoldedColors == {White, <<F(1), F(2^24), F(1), F(1)>>, <<F(0), F(2^24), F(3), F(1)>>}

ColorLeaves ==
    {Multiply(t[1], t[2], t[3], t[4]) : t \in MultiplyParams}
        \cup {Add(t[1], t[2], t[3], t[4]) : t \in AddParams}

\* the transforms combine can be given: a leaf, or what combine made of two
\* leaves of different kinds
ColorOperands ==
    ColorLeaves \cup {Combine(p[1], p[2]) :
                          p \in {q \in ColorLeaves \X ColorLeaves : q[1].k # q[2].k}}

IdleAllButColor ==
    /\ IdleTraversal /\ IdleReader /\ IdleDecode /\ IdleGui /\ IdleHost

InitColor ==
    /\ IdleAllButColor
    /\ colorRun \in {Some([self |-> a, other |-> b, color |-> c,
                           combined |-> NoneV, folded |-> NoneV, via |-> ""]) :
                        a \in ColorOperands, b \in ColorOperands, c \in FoldedColors}

\* ColorTransform::combine of the two operands
CombineStep ==
    /\ colorRun.some /\ ~colorRun.v.combined.some
    /\ colorRun' = Some([colorRun.v EXCEPT
                            !.combined = Some(ColorCombine(colorRun.v.self, colorRun.v.other))])
    /\ UNCHANGED <<travVars, readVars, decodeVars, guiVars, hostVars>>

\* ColorTransform::fold of the combined transform on the colour
FoldStep ==
    /\ colorRun.some /\ colorRun.v.combined.some /\ ~colorRun.v.folded.some
    /\ colorRun' = Some([colorRun.v EXCEPT
                            !.folded = Some(ColorFold(colorRun.v.combined.v, colorRun.v.color)),
                            !.via = "fold"])
    /\ UNCHANGED <<travVars, readVars, decodeVars, guiVars, hostVars>>

\* ColorTransform::into_color of the combined transform: fold on white
IntoColorStep ==
    /\ colorRun.some /\ colorRun.v.combined.some /\ ~colorRun.v.folded.some
    /\ colorRun' = Some([colorRun.v EXCEPT
                            !.folded = Some(ColorFold(colorRun.v.combined.v, White)),
                            !.via = "into_color"])
    /\ UNCHANGED <<travVars, readVars, decodeVars, guiVars, hostVars>>

NextColor == CombineStep \/ FoldStep \/ IntoColorStep

SpecColor == InitColor /\ [][NextColor]_vars

-----------------------------------------------------------------------------
(* C11: combine folds same-kind pairs and defers the rest                  *)

\* the exact product and sum of two f32 values
ExactMul(x, y) == Norm(x[1] * y[1], x[2] + y[2])

ExactAdd(x, y) ==
    LET e == IF x[2] < y[2] THEN x[2] ELSE y[2]
    IN  Norm(x[1] * 2^(x[2] - e) + y[1] * 2^(y[2] - e), e)

\* combine is as claimed: the componentwise product of two Multiply, the
\* componentwise sum of two Add, Combine(l, r) of any other pair
CombinedAsClaimed(run) ==
    LET a == run.self
        b == run.other
        ab == run.combined.v
    IN  IF a.k = "Multiply" /\ b.k = "Multiply"
        THEN ab.k = "Multiply" /\ \A i \in 1..4 : ab.c[i] = FMul(a.c[i], b.c[i])
        ELSE IF a.k = "Add" /\ b.k = "Add"
        THEN ab.k = "Add" /\ \A i \in 1..4 : ab.c[i] = FAdd(a.c[i], b.c[i])
        ELSE ab.k = "Combine" /\ ab.l = a /\ ab.r = b

\* the colour the run folded
ColorOf(run) == IF run.via = "into_color" THEN White ELSE run.color

\* b.fold(a.fold(c))
FoldedInTurn(run) == ColorFold(run.other, ColorFold(run.self, ColorOf(run)))

\* no operation of either side of the equation rounds, on any component
NothingRounds(run) ==
    LET a == run.self
        b == run.other
        c == ColorOf(run)
    IN  \A i \in 1..4 :
            IF a.k = "Multiply"
            THEN /\ FMul(a.c[i], b.c[i]) = ExactMul(a.c[i], b.c[i])
                 /\ FMul(c[i], a.c[i]) = ExactMul(c[i], a.c[i])
                 /\ FMul(FMul(c[i], a.c[i]), b.c[i]) = ExactMul(FMul(c[i], a.c[i]), b.c[i])
                 /\ FMul(c[i], FMul(a.c[i], b.c[i])) = ExactMul(c[i], FMul(a.c[i], b.c[i]))
            ELSE /\ FAdd(a.c[i], b.c[i]) = ExactAdd(a.c[i], b.c[i])
                 /\ FAdd(c[i], a.c[i]) = ExactAdd(c[i], a.c[i])
                 /\ FAdd(FAdd(c[i], a.c[i]), b.c[i]) = ExactAdd(FAdd(c[i], a.c[i]), b.c[i])
                 /\ FAdd(c[i], FAdd(a.c[i], b.c[i])) = ExactAdd(c[i], FAdd(a.c[i], b.c[i]))

\* C11 as claimed: combine makes Multiply of the products, Add of the sums
\* and Combine(l, r) of every other pair, and for all a, b, c the colour
\* (a.combine(b)).fold(c) equals b.fold(a.fold(c)).
C11_FoldOfCombineIsFoldInTurn ==
    (colorRun.some /\ colorRun.v.folded.some) =>
        /\ CombinedAsClaimed(colorRun.v)
        /\ colorRun.v.folded.v = FoldedInTurn(colorRun.v)

\* C11 amended: combine makes Multiply of the products, Add of the sums and
\* Combine(l, r) of every other pair; (a.combine(b)).fold(c) equals
\* b.fold(a.fold(c)) for every pair that becomes a Combine, and for a pair of
\* two Multiply or two Add whenever no f32 operation involved rounds: the
\* folded pair computes c * (l * r) resp. c + (l + r), folding in turn
\* computes (c * l) * r resp. (c + l) + r.
C11_FoldOfCombineUpToRounding ==
    (colorRun.some /\ colorRun.v.folded.some) =>
        /\ CombinedAsClaimed(colorRun.v)
        /\ (colorRun.v.combined.v.k = "Combine" \/ NothingRounds(colorRun.v)) =>
               colorRun.v.folded.v = FoldedInTurn(colorRun.v)

\* two Multiply with parameters other than 1 were combined and folded on a
\* colour other than white, without rounding, and the fold changed the colour
C11_Witness ==
    /\ colorRun.some /\ colorRun.v.folded.some /\ colorRun.v.via = "fold"
    /\ colorRun.v.self.k = "Multiply" /\ colorRun.v.other.k = "Multiply"
    /\ colorRun.v.self.c[3] = F(3) /\ colorRun.v.other.c[3] = F(4097)
    /\ colorRun.v.color # White
    /\ NothingRounds(colorRun.v)
    /\ colorRun.v.folded.v # colorRun.v.color

-----------------------------------------------------------------------------
(* C12: the order of a Multiply and an Add matters                         *)

Halves == Multiply(FLit(1, 2), FLit(1, 2), FLit(1, 2), F(1))

Fifth == Add(FLit(1, 5), F(0), F(0), F(0))

\* C12: Multiply(0.5,0.5,0.5,1.0).combine(Add(0.2,0,0,0)) evaluated on white
\* yields (0.7,0.5,0.5,1.0); the reversed order yields (0.6,0.5,0.5,1.0), a
\* different value: the left operand is applied to the colour first.
C12_MultiplyThenAddOnWhite ==
    (colorRun.some /\ colorRun.v.folded.some /\ colorRun.v.via = "into_color") =>
        /\ (colorRun.v.self = Halves /\ colorRun.v.other = Fifth) =>
               colorRun.v.folded.v = <<FLit(7, 10), FLit(1, 2), FLit(1, 2), F(1)>>
        /\ (colorRun.v.self = Fifth /\ colorRun.v.other = Halves) =>
               /\ colorRun.v.folded.v = <<FLit(3, 5), FLit(1, 2), FLit(1, 2), F(1)>>
               /\ colorRun.v.folded.v # <<FLit(7, 10), FLit(1, 2), FLit(1, 2), F(1)>>
        /\ colorRun.v.combined.v.k = "Combine" =>
               colorRun.v.folded.v = ColorFold(colorRun.v.other, ColorFold(colorRun.v.self, White))

\* the product-then-sum of the claim was evaluated on white
C12_Witness ==
    /\ colorRun.some /\ colorRun.v.folded.some /\ colorRun.v.via = "into_color"
    /\ colorRun.v.self = Halves /\ colorRun.v.other = Fifth
    /\ colorRun.v.folded.v[1] = FLit(7, 10)

-----------------------------------------------------------------------------
(* The decoder: a cursor is the bytes b and a position p; a decode returns *)
(* the value and the position behind it, or an error.  log lists the       *)
(* decode_opt calls made on the way: what, whether present, from, to.      *)

Ok(v, pos, log) == [ok |-> TRUE, v |-> v, pos |-> pos, log |-> log]

\* io::Error, or a panic (why = "panic")
Err(why) == [ok |-> FALSE, why |-> why]

\* impl Decode for u8 / i8 / u16 / i16 / i32 / u32: little endian
DecodeU8(b, p) == IF p + 1 <= Len(b) THEN Ok(b[p + 1], p + 1, <<>>) ELSE Err("eof")

DecodeI8(b, p) ==
    IF p + 1 <= Len(b)
    THEN Ok(IF b[p + 1] >= 128 THEN b[p + 1] - 256 ELSE b[p + 1], p + 1, <<>>)
    ELSE Err("eof")

DecodeU16(b, p) ==
    IF p + 2 <= Len(b) THEN Ok(b[p + 1] + 256 * b[p + 2], p + 2, <<>>) ELSE Err("eof")

DecodeI16(b, p) ==
    IF p + 2 <= Len(b)
    THEN Ok(b[p + 1] + 256 * (IF b[p + 2] >= 128 THEN b[p + 2] - 256 ELSE b[p + 2]),
            p + 2, <<>>)
    ELSE Err("eof")

DecodeI32(b, p) ==
    IF p + 4 <= Len(b)
    THEN Ok(b[p + 1] + 256 * b[p + 2] + 65536 * b[p + 3]
                + 16777216 * (IF b[p + 4] >= 128 THEN b[p + 4] - 256 ELSE b[p + 4]),
            p + 4, <<>>)
    ELSE Err("eof")

\* a u32 of 2^31 and more is held as 2^31 - 1: as a count it is beyond the
\* length of every record either way
DecodeU32(b, p) ==
    IF p + 4 <= Len(b)
    THEN Ok(IF b[p + 4] >= 128 THEN 2147483647
            ELSE b[p + 1] + 256 * b[p + 2] + 65536 * b[p + 3] + 16777216 * b[p + 4],
            p + 4, <<>>)
    ELSE Err("eof")

\* impl Decode for f32: the IEEE 754 single of the four bytes (a zero
\* exponent field is a subnormal; infinities and NaN are read as numbers)
DecodeF32(b, p) ==
    IF p + 4 <= Len(b)
    THEN LET exp == (b[p + 4] % 128) * 2 + (b[p + 3] \div 128)
             frac == (b[p + 3] % 128) * 65536 + b[p + 2] * 256 + b[p + 1]
             m == IF exp = 0 THEN frac ELSE frac + 8388608
             e == IF exp = 0 THEN -149 ELSE exp - 150
         IN  Ok(Norm(IF b[p + 4] >= 128 THEN -m ELSE m, e), p + 4, <<>>)
    ELSE Err("eof")

\* String::from_utf8: is the byte sequence s well-formed UTF-8 from index i on
RECURSIVE Utf8From(_, _)
Utf8From(s, i) ==
    IF i > Len(s) THEN TRUE
    ELSE LET c == s[i]
             n == IF c < 128 THEN 0
                  ELSE IF c \in 194..223 THEN 1
                  ELSE IF c \in 224..239 THEN 2
                  ELSE IF c \in 240..244 THEN 3
                  ELSE -1
             lo == IF c = 224 THEN 160 ELSE IF c = 240 THEN 144 ELSE 128
             hi == IF c = 237 THEN 159 ELSE IF c = 244 THEN 143 ELSE 191
         IN  /\ n >= 0
             /\ i + n <= Len(s)
             /\ n >= 1 => s[i + 1] \in lo..hi
             /\ \A j \in 2..n : s[i + j] \in 128..191
             /\ Utf8From(s, i + n + 1)

\* the position of the first zero byte at or after p, -1 if there is none
RECURSIVE ZeroFrom(_, _)
ZeroFrom(b, p) ==
    IF p >= Len(b) THEN -1
    ELSE IF b[p + 1] = 0 THEN p
    ELSE ZeroFrom(b, p + 1)

\* impl Decode for String: the bytes up to a zero byte, which must be UTF-8
DecodeString(b, p) ==
    LET z == ZeroFrom(b, p)
    IN  IF z < 0 THEN Err("eof")
        ELSE IF ~Utf8From(SubSeq(b, p + 1, z), 1) THEN Err("utf8")
        ELSE Ok(SubSeq(b, p + 1, z), z + 1, <<>>)

\* a flag bit of a decoded integer: x & mask == mask, mask a power of two
BitSet(x, mask) == (x \div mask) % 2 = 1

\* u8 - 1 and i8 + 1: out of range a debug build panics, a release build wraps
U8MinusOne(x, build) ==
    IF x >= 1 THEN Some(x - 1)
    ELSE IF build = "debug" THEN NoneV ELSE Some(255)

I8PlusOne(x, build) ==
    IF x < 127 THEN Some(x + 1)
    ELSE IF build = "debug" THEN NoneV ELSE Some(-128)

\* DecodeExt::decode, by the name of the type decoded
RECURSIVE DecodeAs(_, _, _, _)

\* a decode_n that returns what it has read when a value fails to decode
RECURSIVE DecodeNFromLenient(_, _, _, _, _, _, _)
DecodeNFromLenient(kind, b, p, count, build, acc, log) ==
    IF count = 0 THEN Ok(acc, p, log)
    ELSE LET x == DecodeAs(kind, b, p, build)
         IN  IF ~x.ok THEN Ok(acc, p, log)
             ELSE DecodeNFromLenient(kind, b, x.pos, count - 1, build, Append(acc, x.v),
                                     log \o x.log)

\* DecodeExt::decode_n: count values in a row
RECURSIVE DecodeNFrom(_, _, _, _, _, _, _)
DecodeNFrom(kind, b, p, count, build, acc, log) ==
    IF count = 0 THEN Ok(acc, p, log)
    ELSE LET x == DecodeAs(kind, b, p, build)
         IN  IF ~x.ok THEN x
             ELSE DecodeNFrom(kind, b, x.pos, count - 1, build, Append(acc, x.v),
                              log \o x.log)

DecodeN(kind, b, p, count, build) == DecodeNFrom(kind, b, p, count, build, <<>>, <<>>)

\* DecodeExt::decode_prefixed: a count of type prefix, then that many values
DecodePrefixed(prefix, kind, b, p, build) ==
    LET count == DecodeAs(prefix, b, p, build)
    IN  IF ~count.ok THEN count ELSE DecodeN(kind, b, count.pos, count.v, build)

\* the entry decode_opt leaves in the log: the field decoded, whether it was
\* present, the positions of the cursor before and after
OptEntry(field, present, from, to) ==
    [field |-> field, present |-> present, from |-> from, to |-> to]

DecodeOptReadAndDiscard(field, kind, b, p, present, build) ==
    LET x == DecodeAs(kind, b, p, build)
    IN  IF ~x.ok THEN x
        ELSE Ok(IF present THEN Some(x.v) ELSE NoneV, x.pos,
                <<OptEntry(field, present, p, x.pos)>> \o x.log)

\* DecodeExt::decode_opt for the named field: the value if present, else
\* nothing is read
DecodeOpt(field, kind, b, p, present, build) ==
    IF present
    THEN LET x == DecodeAs(kind, b, p, build)
         IN  IF ~x.ok THEN x
             ELSE Ok(Some(x.v), x.pos, <<OptEntry(field, TRUE, p, x.pos)>> \o x.log)
    ELSE Ok(NoneV, p, <<OptEntry(field, FALSE, p, p)>>)

\* cursor.decode::<T>()? for each T of kinds in turn: the values in a row
RECURSIVE FieldsFrom(_, _, _, _, _, _)
FieldsFrom(kinds, b, p, build, acc, log) ==
    IF kinds = <<>> THEN Ok(acc, p, log)
    ELSE LET x == DecodeAs(Head(kinds), b, p, build)
         IN  IF ~x.ok THEN x
             ELSE FieldsFrom(Tail(kinds), b, x.pos, build, Append(acc, x.v), log \o x.log)

Fields(kinds, b, p, build) == FieldsFrom(kinds, b, p, build, <<>>, <<>>)

\* impl Decode for Texture
DecodeTexture(b, p, build) ==
    LET f == Fields(<<"String", "i32">>, b, p, build)
    IN  IF ~f.ok THEN f ELSE Ok([name |-> f.v[1], crc |-> f.v[2]], f.pos, f.log)

\* a Shape whose texture coordinates are the u16 as f32, not divided
DecodeShapeRawUv(b, p, build) ==
    LET f == Fields(<<"i16", "i16", "u16", "u16", "u16", "u16", "i16", "i16", "f32", "f32">>,
                    b, p, build)
    IN  IF ~f.ok THEN f
        ELSE Ok([id |-> f.v[1], texture_index |-> f.v[2],
                 top |-> F(f.v[3]), left |-> F(f.v[4]),
                 bottom |-> F(f.v[5]), right |-> F(f.v[6]),
                 width |-> f.v[7], height |-> f.v[8],
                 offset_x |-> f.v[9], offset_y |-> f.v[10]], f.pos, f.log)

\* impl Decode for Shape: the texture coordinates are u16 as f32 / 65535f32
DecodeShape(b, p, build) ==
    LET f == Fields(<<"i16", "i16", "u16", "u16", "u16", "u16", "i16", "i16", "f32", "f32">>,
                    b, p, build)
    IN  IF ~f.ok THEN f
        ELSE Ok([id |-> f.v[1], texture_index |-> f.v[2],
                 top |-> FLit(f.v[3], 65535), left |-> FLit(f.v[4], 65535),
                 bottom |-> FLit(f.v[5], 65535), right |-> FLit(f.v[6], 65535),
                 width |-> f.v[7], height |-> f.v[8],
                 offset_x |-> f.v[9], offset_y |-> f.v[10]], f.pos, f.log)

\* impl Decode for TransformTable
DecodeTransformTable(b, p, build) ==
    LET f == Fields(<<"u32:f32", "u32:f32", "u32:f32", "u32:Action">>, b, p, build)
    IN  IF ~f.ok THEN f
        ELSE Ok([colors |-> f.v[1], rotations |-> f.v[2], translations |-> f.v[3],
                 actions |-> f.v[4]], f.pos, f.log)

\* impl Decode for HideablePart / HiddenPart / AnimationFile / Import / Color
DecodeHideablePart(b, p, build) ==
    LET f == Fields(<<"i32", "i32">>, b, p, build)
    IN  IF ~f.ok THEN f ELSE Ok([crc_key |-> f.v[1], crc_to_hide |-> f.v[2]], f.pos, f.log)

DecodeHiddenPart(b, p, build) ==
    LET f == Fields(<<"String", "i32">>, b, p, build)
    IN  IF ~f.ok THEN f ELSE Ok([item_name |-> f.v[1], crc_key |-> f.v[2]], f.pos, f.log)

DecodeAnimationFile(b, p, build) ==
    LET f == Fields(<<"String", "i32", "i16">>, b, p, build)
    IN  IF ~f.ok THEN f
        ELSE Ok([name |-> f.v[1], crc |-> f.v[2], file_index |-> f.v[3]], f.pos, f.log)

DecodeImport(b, p, build) ==
    LET f == Fields(<<"i16", "String", "i32">>, b, p, build)
    IN  IF ~f.ok THEN f
        ELSE Ok([id |-> f.v[1], name |-> f.v[2], crc |-> f.v[3]], f.pos, f.log)

DecodeColor(b, p, build) ==
    LET f == Fields(<<"f32", "f32", "f32">>, b, p, build)
    IN  IF ~f.ok THEN f
        ELSE Ok([red |-> f.v[1], green |-> f.v[2], blue |-> f.v[3], alpha |-> F(1)],
                f.pos, f.log)

\* impl Decode for FrameData
DecodeFrameData(b, p, build) ==
    LET f == Fields(<<"u8", "u32">>, b, p, build)
    IN  IF ~f.ok THEN f
        ELSE LET tag == f.v[1]
                 size == f.v[2]
                 shorts == DecodeN("u16", b, f.pos, size, build)
                 ints == DecodeN("u32", b, f.pos, size, build)
             IN  CASE tag = 1 ->
                        IF f.pos + size <= Len(b)
                        THEN Ok([kind |-> "Bytes", vec |-> SubSeq(b, f.pos + 1, f.pos + size)],
                                f.pos + size, <<>>)
                        ELSE Err("eof")
                   [] tag = 2 ->
                        IF ~shorts.ok THEN shorts
                        ELSE Ok([kind |-> "Shorts", vec |-> shorts.v], shorts.pos, <<>>)
                   [] tag = 4 ->
                        IF ~ints.ok THEN ints
                        ELSE Ok([kind |-> "Ints", vec |-> ints.v], ints.pos, <<>>)
                   [] OTHER -> Err("case")

\* "#optimized"
Optimized == <<35, 111, 112, 116, 105, 109, 105, 122, 101, 100>>

\* the entries of a sequence at the odd and at the even indices
Odds(q) == [i \in 1..((Len(q) + 1) \div 2) |-> q[2 * i - 1]]
Evens(q) == [i \in 1..(Len(q) \div 2) |-> q[2 * i]]

\* impl Decode for Action
DecodeAction(b, p, build) ==
    LET h == Fields(<<"u8", "u8">>, b, p, build)
    IN  IF ~h.ok THEN h
        ELSE
        LET id == h.v[1]
            param_count == h.v[2]
            less == U8MinusOne(param_count, build)
            str == DecodeString(b, h.pos)
        IN  CASE id = 1 ->
                   IF ~str.ok THEN str
                   ELSE LET percent == DecodeOpt("Action.percent", "u8", b, str.pos,
                                                 param_count = 2, build)
                        IN  IF ~percent.ok THEN percent
                            ELSE Ok([kind |-> "GoTo", name |-> str.v, percent |-> percent.v],
                                    percent.pos, percent.log)
              [] id = 2 -> Ok([kind |-> "GoToStatic"], h.pos, <<>>)
              [] id = 3 ->
                   IF ~str.ok THEN str
                   ELSE Ok([kind |-> "RunScript", script |-> str.v], str.pos, <<>>)
              [] id = 4 ->
                   IF ~str.ok THEN str
                   ELSE IF ~less.some THEN Err("panic")
                   ELSE IF str.v = Optimized
                   THEN LET count == less.v \div 2
                            names == DecodeN("String", b, str.pos, count, build)
                        IN  IF ~names.ok THEN names
                            ELSE LET percents == DecodeN("u8", b, names.pos, count, build)
                                 IN  IF ~percents.ok THEN percents
                                     ELSE Ok([kind |-> "GoToRandom",
                                              names |-> <<str.v>> \o names.v,
                                              percents |-> percents.v], percents.pos, <<>>)
                   ELSE LET names == DecodeN("String", b, str.pos, less.v, build)
                        IN  IF ~names.ok THEN names
                            ELSE Ok([kind |-> "GoToRandom", names |-> names.v,
                                     percents |-> <<>>], names.pos, <<>>)
              [] id = 5 -> Ok([kind |-> "Hit"], h.pos, <<>>)
              [] id = 6 -> Ok([kind |-> "Delete"], h.pos, <<>>)
              [] id = 7 -> Ok([kind |-> "End"], h.pos, <<>>)
              [] id = 8 ->
                   IF ~less.some THEN Err("panic")
                   ELSE LET pairs == DecodeN("String", b, h.pos, 2 * (less.v \div 2), build)
                        IN  IF ~pairs.ok THEN pairs
                            ELSE LET default == DecodeOpt("Action.default", "String", b,
                                                          pairs.pos, param_count % 2 = 1, build)
                                 IN  IF ~default.ok THEN default
                                     ELSE Ok([kind |-> "GoToIfPrevious",
                                              previous |-> Odds(pairs.v),
                                              next |-> Evens(pairs.v),
                                              default |-> default.v], default.pos, default.log)
              [] id = 9 ->
                   LET particle_id == DecodeI32(b, h.pos)
                   IN  IF ~particle_id.ok THEN particle_id
                       ELSE
                       LET offset_x == DecodeOpt("Action.offset_x", "i16", b, particle_id.pos,
                                                 param_count > 1, build)
                       IN  IF ~offset_x.ok THEN offset_x
                           ELSE
                           LET offset_y == DecodeOpt("Action.offset_y", "i16", b, offset_x.pos,
                                                     param_count > 2, build)
                           IN  IF ~offset_y.ok THEN offset_y
                               ELSE
                               LET offset_z == DecodeOpt("Action.offset_z", "i16", b,
                                                         offset_y.pos, param_count > 3, build)
                               IN  IF ~offset_z.ok THEN offset_z
                                   ELSE Ok([kind |-> "AddParticle",
                                            particle_id |-> particle_id.v,
                                            offset_x |-> offset_x.v, offset_y |-> offset_y.v,
                                            offset_z |-> offset_z.v], offset_z.pos,
                                           offset_x.log \o offset_y.log \o offset_z.log)
              [] id = 10 ->
                   LET radius == DecodeI8(b, h.pos)
                   IN  IF ~radius.ok THEN radius
                       ELSE Ok([kind |-> "SetRadius", radius |-> radius.v], radius.pos, <<>>)
              [] OTHER -> Err("case")

\* HashMap::insert
InsertKeepFirst(map, k, v) ==
    [x \in DOMAIN map \cup {k} |-> IF x \in DOMAIN map THEN map[x] ELSE v]

Insert(map, k, v) == [x \in DOMAIN map \cup {k} |-> IF x = k THEN v ELSE map[x]]

\* Iterator::collect into a HashMap: the <<key, value>> pairs inserted in order
RECURSIVE CollectInto(_, _)
CollectInto(map, pairs) ==
    IF pairs = <<>> THEN map
    ELSE CollectInto(Insert(map, Head(pairs)[1], Head(pairs)[2]), Tail(pairs))

\* .iter().map(|x| (x.id, x.clone())).collect()
CollectById(list) == CollectInto(<<>>, [i \in 1..Len(list) |-> <<list[i].id, list[i]>>])

\* one entry of the heights of an AnimationExtension: key, height + 1
DecodeHeight(b, p, build) ==
    LET f == Fields(<<"i32", "i8">>, b, p, build)
    IN  IF ~f.ok THEN f
        ELSE IF ~I8PlusOne(f.v[2], build).some THEN Err("panic")
        ELSE Ok(<<f.v[1], I8PlusOne(f.v[2], build).v>>, f.pos, f.log)

\* impl Decode for AnimationExtension
DecodeAnimationExtension(b, p, build) ==
    LET flags == DecodeI32(b, p)
    IN  IF ~flags.ok THEN flags
        ELSE
        LET heights == IF BitSet(flags.v, 1)
                       THEN DecodePrefixed("u16", "height", b, flags.pos, build)
                       ELSE Ok(<<>>, flags.pos, <<>>)
        IN  IF ~heights.ok THEN heights
            ELSE
            LET highlight_color == DecodeOpt("AnimationExtension.highlight_color", "Color", b,
                                             heights.pos, BitSet(flags.v, 2), build)
            IN  IF ~highlight_color.ok THEN highlight_color
                ELSE Ok([heights |-> IF BitSet(flags.v, 1)
                                     THEN Some(CollectInto(<<>>, heights.v)) ELSE NoneV,
                         highlight_color |-> highlight_color.v],
                        highlight_color.pos, heights.log \o highlight_color.log)

\* impl Decode for AnimationIndex
DecodeAnimationIndex(b, p, build) ==
    LET flags == DecodeU8(b, p)
    IN  IF ~flags.ok THEN flags
        ELSE
        LET scale == DecodeOpt("AnimationIndex.scale", "f32", b, flags.pos,
                               BitSet(flags.v, 1), build)
        IN  IF ~scale.ok THEN scale
            ELSE
            LET render_radius == DecodeOpt("AnimationIndex.render_radius", "f32", b, scale.pos,
                                           BitSet(flags.v, 8), build)
            IN  IF ~render_radius.ok THEN render_radius
                ELSE
                LET file_names == IF BitSet(flags.v, 2)
                                  THEN DecodePrefixed("u16", "String", b, render_radius.pos, build)
                                  ELSE Ok(<<>>, render_radius.pos, <<>>)
                IN  IF ~file_names.ok THEN file_names
                    ELSE
                    LET parts_hidden_by ==
                            IF BitSet(flags.v, 4)
                            THEN DecodePrefixed("u8", "HideablePart", b, file_names.pos, build)
                            ELSE Ok(<<>>, file_names.pos, <<>>)
                    IN  IF ~parts_hidden_by.ok THEN parts_hidden_by
                        ELSE
                        LET parts_to_be_hidden ==
                                IF BitSet(flags.v, 64)
                                THEN DecodePrefixed("u8", "HiddenPart", b,
                                                    parts_hidden_by.pos, build)
                                ELSE Ok(<<>>, parts_hidden_by.pos, <<>>)
                        IN  IF ~parts_to_be_hidden.ok THEN parts_to_be_hidden
                            ELSE
                            LET extension ==
                                    DecodeOpt("AnimationIndex.extension", "AnimationExtension", b,
                                              parts_to_be_hidden.pos, BitSet(flags.v, 128), build)
                            IN  IF ~extension.ok THEN extension
                                ELSE
                                LET animation_files ==
                                        DecodePrefixed("u16", "AnimationFile", b,
                                                       extension.pos, build)
                                IN  IF ~animation_files.ok THEN animation_files
                                    ELSE Ok([flags |-> flags.v,
                                             scale |-> scale.v,
                                             render_radius |-> render_radius.v,
                                             file_names |-> IF BitSet(flags.v, 2)
                                                            THEN Some(file_names.v) ELSE NoneV,
                                             animation_files |-> animation_files.v,
                                             parts_to_be_hidden |->
                                                 IF BitSet(flags.v, 64)
                                                 THEN Some(parts_to_be_hidden.v) ELSE NoneV,
                                             parts_hidden_by |->
                                                 IF BitSet(flags.v, 4)
                                                 THEN Some(parts_hidden_by.v) ELSE NoneV,
                                             extension |-> extension.v],
                                            animation_files.pos,
                                            scale.log \o render_radius.log \o extension.log)

\* a match that takes every tag it does not know for SingleNoAction
DecodePayloadAnyTag(tag, b, p, build) ==
    CASE tag = 1 ->
           LET f == Fields(<<"i16", "u16:i16">>, b, p, build)
           IN  IF ~f.ok THEN f
               ELSE Ok(Some(Single(f.v[1], f.v[2])), f.pos, <<>>)
      [] tag = 2 ->
           LET f == DecodeI16(b, p)
           IN  IF ~f.ok THEN f ELSE Ok(Some(SingleNoAction(f.v)), f.pos, <<>>)
      [] tag = 3 ->
           LET f == Fields(<<"u16:i16", "u16:i16">>, b, p, build)
           IN  IF ~f.ok THEN f ELSE Ok(Some(SingleFrame(f.v[1], f.v[2])), f.pos, <<>>)
      [] tag = 4 ->
           LET f == Fields(<<"u16:i32", "u16:i16", "u16:i16">>, b, p, build)
           IN  IF ~f.ok THEN f ELSE Ok(Some(Indexed(f.v[1], f.v[2], f.v[3])), f.pos, <<>>)
      [] OTHER ->
           LET f == DecodeI16(b, p)
           IN  IF ~f.ok THEN f ELSE Ok(Some(SingleNoAction(f.v)), f.pos, <<>>)

\* the match on the tag in Sprite::decode: the payload, or the error that is
\* kept until the frame data has been decoded
DecodePayload(tag, b, p, build) ==
    CASE tag = 1 ->
           LET f == Fields(<<"i16", "u16:i16">>, b, p, build)
           IN  IF ~f.ok THEN f
               ELSE Ok(Some(Single(f.v[1], f.v[2])), f.pos, <<>>)
      [] tag = 2 ->
           LET f == DecodeI16(b, p)
           IN  IF ~f.ok THEN f ELSE Ok(Some(SingleNoAction(f.v)), f.pos, <<>>)
      [] tag = 3 ->
           LET f == Fields(<<"u16:i16", "u16:i16">>, b, p, build)
           IN  IF ~f.ok THEN f ELSE Ok(Some(SingleFrame(f.v[1], f.v[2])), f.pos, <<>>)
      [] tag = 4 ->
           LET f == Fields(<<"u16:i32", "u16:i16", "u16:i16">>, b, p, build)
           IN  IF ~f.ok THEN f ELSE Ok(Some(Indexed(f.v[1], f.v[2], f.v[3])), f.pos, <<>>)
      [] OTHER -> Ok(NoneV, p, <<>>)

\* impl Decode for Sprite
DecodeSprite(b, p, build) ==
    LET h == Fields(<<"i8", "i16", "u8">>, b, p, build)
    IN  IF ~h.ok THEN h
        ELSE
        LET tag == h.v[1]
            flags == h.v[3]
            name == DecodeOpt("Sprite.name", "String", b, h.pos, BitSet(flags, 64), build)
        IN  IF ~name.ok THEN name
            ELSE
            LET crcs == Fields(<<"i32", "i32">>, b, name.pos, build)
            IN  IF ~crcs.ok THEN crcs
                ELSE
                LET payload == DecodePayload(tag, b, crcs.pos, build)
                IN  IF ~payload.ok THEN payload
                    ELSE
                    LET frame_data == DecodeFrameData(b, payload.pos, build)
                    IN  IF ~frame_data.ok THEN frame_data
                        ELSE IF ~payload.v.some THEN Err("case")
                        ELSE Ok([id |-> h.v[2],
                                 name |-> [name |-> name.v, name_crc |-> crcs.v[1],
                                           base_name_crc |-> crcs.v[2]],
                                 flags |-> flags,
                                 frame_data |-> frame_data.v,
                                 payload |-> payload.v.v],
                                frame_data.pos, name.log)

\* the locals of Animation::decode once the last import has been read
DecodeAnimationLocals(b, p, build) ==
    LET h == Fields(<<"u8", "i16", "u8">>, b, p, build)
    IN  IF ~h.ok THEN h
        ELSE
        LET version == h.v[1]
            index == DecodeOpt("Animation.index", "AnimationIndex", b, h.pos,
                               BitSet(version, 2), build)
        IN  IF ~index.ok THEN index
            ELSE
            LET texture_count == DecodeU16(b, index.pos)
            IN  IF ~texture_count.ok THEN texture_count
                ELSE
                LET texture == DecodeOpt("Animation.texture", "Texture", b, texture_count.pos,
                                         texture_count.v = 1, build)
                IN  IF ~texture.ok THEN texture
                    ELSE
                    LET shapes_vec == DecodePrefixed("u16", "Shape", b, texture.pos, build)
                    IN  IF ~shapes_vec.ok THEN shapes_vec
                        ELSE
                        LET transform == DecodeOpt("Animation.transform", "TransformTable", b,
                                                   shapes_vec.pos, BitSet(version, 16), build)
                        IN  IF ~transform.ok THEN transform
                            ELSE
                            LET sprites_vec == DecodePrefixed("u16", "Sprite", b,
                                                              transform.pos, build)
                            IN  IF ~sprites_vec.ok THEN sprites_vec
                                ELSE
                                LET imports == DecodePrefixed("u16", "Import", b,
                                                              sprites_vec.pos, build)
                                IN  IF ~imports.ok THEN imports
                                    ELSE Ok([version |-> version,
                                             frame_rate |-> h.v[3],
                                             index |-> index.v,
                                             texture_count |-> texture_count.v,
                                             texture |-> texture.v,
                                             shapes_vec |-> shapes_vec.v,
                                             transform |-> transform.v,
                                             sprites_vec |-> sprites_vec.v,
                                             imports |-> imports.v],
                                            imports.pos,
                                            index.log \o texture.log \o shapes_vec.log
                                                \o transform.log \o sprites_vec.log)

\* impl Decode for Animation
DecodeAnimation(b, p, build) ==
    LET l == DecodeAnimationLocals(b, p, build)
    IN  IF ~l.ok THEN l
        ELSE Ok([version |-> l.v.version,
                 frame_rate |-> l.v.frame_rate,
                 index |-> l.v.index,
                 texture |-> l.v.texture,
                 shapes |-> CollectById(l.v.shapes_vec),
                 transform |-> l.v.transform,
                 sprites |-> CollectById(l.v.sprites_vec),
                 imports |-> l.v.imports], l.pos, l.log)

DecodeAs(kind, b, p, build) ==
    CASE kind = "u8" -> DecodeU8(b, p)
      [] kind = "i8" -> DecodeI8(b, p)
      [] kind = "u16" -> DecodeU16(b, p)
      [] kind = "i16" -> DecodeI16(b, p)
      [] kind = "i32" -> DecodeI32(b, p)
      [] kind = "u32" -> DecodeU32(b, p)
      [] kind = "f32" -> DecodeF32(b, p)
      [] kind = "String" -> DecodeString(b, p)
      [] kind = "Texture" -> DecodeTexture(b, p, build)
      [] kind = "Shape" -> DecodeShape(b, p, build)
      [] kind = "TransformTable" -> DecodeTransformTable(b, p, build)
      [] kind = "Sprite" -> DecodeSprite(b, p, build)
      [] kind = "FrameData" -> DecodeFrameData(b, p, build)
      [] kind = "AnimationIndex" -> DecodeAnimationIndex(b, p, build)
      [] kind = "HideablePart" -> DecodeHideablePart(b, p, build)
      [] kind = "HiddenPart" -> DecodeHiddenPart(b, p, build)
      [] kind = "AnimationExtension" -> DecodeAnimationExtension(b, p, build)
      [] kind = "height" -> DecodeHeight(b, p, build)
      [] kind = "Color" -> DecodeColor(b, p, build)
      [] kind = "AnimationFile" -> DecodeAnimationFile(b, p, build)
      [] kind = "Action" -> DecodeAction(b, p, build)
      [] kind = "Import" -> DecodeImport(b, p, build)
      [] kind = "Animation" -> DecodeAnimation(b, p, build)
      [] kind = "u16:i16" -> DecodePrefixed("u16", "i16", b, p, build)
      [] kind = "u16:i32" -> DecodePrefixed("u16", "i32", b, p, build)
      [] kind = "u32:f32" -> DecodePrefixed("u32", "f32", b, p, build)
      [] kind = "u32:Action" -> DecodePrefixed("u32", "Action", b, p, build)

-----------------------------------------------------------------------------
(* Records for the decoder: the bytes the decoders above read, written    *)
(* field by field in the same order and widths                             *)

MaxParam == 5       \* parameter counts of the actions range over 0..MaxParam

\* a 16-bit and a 32-bit little-endian integer
LE16(n) == LET u == IF n < 0 THEN n + 65536 ELSE n IN <<u % 256, u \div 256>>

LE32(n) == <<n % 256, (n \div 256) % 256, (n \div 65536) % 256, n \div 16777216>>

\* the f32 of a small integer
F32LE(n) ==
    CASE n = 0 -> <<0, 0, 0, 0>>
      [] n = 1 -> <<0, 0, 128, 63>>
      [] n = 2 -> <<0, 0, 0, 64>>
      [] n = 3 -> <<0, 0, 64, 64>>
      [] n = -1 -> <<0, 0, 128, 191>>

\* a string and its closing zero byte
CStr(s) == s \o <<0>>

RECURSIVE Flatten(_)
Flatten(qs) == IF qs = <<>> THEN <<>> ELSE Head(qs) \o Flatten(Tail(qs))

\* a list behind a u8, u16 or u32 count
Vec8(items) == <<Len(items)>> \o Flatten(items)
Vec16(items) == LE16(Len(items)) \o Flatten(items)
Vec32(items) == LE32(Len(items)) \o Flatten(items)

I16s(q) == [i \in 1..Len(q) |-> LE16(q[i])]
I32s(q) == [i \in 1..Len(q) |-> LE32(q[i])]

ShapeBytes(id, uv, width, height, ox, oy) ==
    LE16(id) \o LE16(0) \o LE16(uv[1]) \o LE16(uv[2]) \o LE16(uv[3]) \o LE16(uv[4])
        \o LE16(width) \o LE16(height) \o F32LE(ox) \o F32LE(oy)

\* the shape of the minimal container
MinimalShape == ShapeBytes(1, <<0, 0, 65535, 65535>>, 64, 64, 0, 0)

\* the four payload layouts, by tag
PayloadBytes(tag) ==
    CASE tag = 1 -> LE16(3) \o Vec16(I16s(<<7>>))
      [] tag = 2 -> LE16(3)
      [] tag = 3 -> Vec16(I16s(<<3, 2>>)) \o Vec16(I16s(<<>>))
      [] tag = 4 -> Vec16(I32s(<<0, 0, 1, 2, 2, 0>>)) \o Vec16(I16s(<<1, 3, 2, 3, 2>>))
                        \o Vec16(I16s(<<7>>))

\* frame data of the three widths, and one with a tag that is none of them
FrameBytes(tag) ==
    CASE tag = 1 -> <<1>> \o LE32(2) \o <<1, 0>>
      [] tag = 2 -> <<2>> \o LE32(1) \o LE16(300)
      [] tag = 4 -> <<4>> \o LE32(1) \o LE32(70000)
      [] OTHER -> <<tag>> \o LE32(0)

\* a sprite: the tag byte written, the layout of the payload that follows it
SpriteBytesNamed(tag, layout, id, flags, name, frames) ==
    <<tag>> \o LE16(id) \o <<flags>> \o name
        \o LE32(17) \o LE32(4) \o PayloadBytes(layout) \o FrameBytes(frames)

SpriteBytes(tag, layout, id, flags, frames) ==
    SpriteBytesNamed(tag, layout, id, flags,
                     IF BitSet(flags, 64) THEN CStr(<<97, 98>>) ELSE <<>>, frames)

ImportBytes(id) == LE16(id) \o CStr(<<105>>) \o LE32(9)

\* an action of every kind with its arguments; count is the parameter count
GoToBytes(count) == <<1, count>> \o CStr(<<97>>) \o (IF count = 2 THEN <<50>> ELSE <<>>)

\* a transform table of one colour, two rotations, no translation, two actions
TableBytes ==
    Vec32(<<F32LE(1)>>) \o Vec32(<<F32LE(0), F32LE(1)>>) \o Vec32(<<>>)
        \o Vec32(<<GoToBytes(2), <<7, 0>>>>)

\* an index with every optional part, and one with none
FullIndexBytes ==
    <<207>> \o F32LE(2) \o F32LE(3)
        \o Vec16(<<CStr(<<102>>)>>)
        \o Vec8(<<LE32(1) \o LE32(2)>>)
        \o Vec8(<<CStr(<<104>>) \o LE32(3)>>)
        \o LE32(3) \o Vec16(<<LE32(5) \o <<1>>, LE32(5) \o <<255>>>>)
        \o F32LE(1) \o F32LE(0) \o F32LE(1)
        \o Vec16(<<CStr(<<97>>) \o LE32(6) \o LE16(0)>>)

BareIndexBytes == <<0>> \o Vec16(<<>>)

\* the lists of shapes, sprites and imports of a record: the minimal
\* container; ids that repeat; no shapes
BodyShapes(body) ==
    CASE body = 1 -> <<MinimalShape>>
      [] body = 2 -> <<ShapeBytes(1, <<0, 0, 65535, 65535>>, 64, 64, 0, 0),
                       ShapeBytes(2, <<0, 1, 2, 3>>, 3, 0, 1, 2),
                       ShapeBytes(1, <<0, 0, 1, 1>>, 32, 16, -1, 3)>>
      [] body = 3 -> <<>>

BodySprites(body) ==
    CASE body = 1 -> <<>>
      [] body = 2 -> <<SpriteBytes(1, 1, 5, 64, 1), SpriteBytes(4, 4, 6, 0, 2),
                       SpriteBytes(2, 2, 5, 0, 4)>>
      [] body = 3 -> <<SpriteBytes(3, 3, 7, 0, 1), SpriteBytes(3, 3, 7, 64, 2)>>

BodyImports(body) ==
    CASE body = 1 -> <<>>
      [] body = 2 -> <<ImportBytes(8)>>
      [] body = 3 -> <<ImportBytes(8), ImportBytes(8)>>

\* an animation record; sections says whether the optional sections are
\* written as the version and the texture count announce them ("gated") or
\* written whatever they say ("always")
RecordBytes(version, texture_count, shapes, sprites, imports, sections) ==
    <<version>> \o LE16(0) \o <<30>>
        \o (IF BitSet(version, 2) THEN FullIndexBytes
            ELSE IF sections = "always" THEN BareIndexBytes ELSE <<>>)
        \o LE16(texture_count)
        \o (IF texture_count = 1 \/ sections = "always"
            THEN CStr(<<116>>) \o LE32(12) ELSE <<>>)
        \o Vec16(shapes)
        \o (IF BitSet(version, 16) \/ sections = "always" THEN TableBytes ELSE <<>>)
        \o Vec16(sprites) \o Vec16(imports)

Versions == {0, 2, 16, 18}
TextureCounts == {0, 1, 2}
Bodies == {1, 2, 3}

AnimationRecords ==
    {RecordBytes(v, tc, BodyShapes(bd), BodySprites(bd), BodyImports(bd), "gated") :
        v \in Versions, tc \in TextureCounts, bd \in Bodies}

\* records that carry a section their header does not announce
UngatedRecords ==
    {RecordBytes(v, tc, BodyShapes(1), <<>>, <<>>, "always") :
        v \in {0, 16}, tc \in {0, 2}}

\* sprites on their own: each tag byte over each payload layout
SpriteTags == {0, 1, 2, 3, 4, 5, 255}

SpriteRecords ==
    {SpriteBytes(t, l, 5, fl, fr) :
        t \in SpriteTags, l \in 1..4, fl \in {0, 64}, fr \in {1, 2, 3, 4}}

\* sprites that carry a name their flags do not announce
UngatedSprites == {SpriteBytesNamed(t, t, 5, 0, CStr(<<97, 98>>), 1) : t \in 1..4}

\* records whose one sprite has a tag outside 1..4
BadTagRecords ==
    {RecordBytes(0, 0, <<MinimalShape>>, <<SpriteBytes(t, l, 5, 0, 1)>>, <<>>, "gated") :
        t \in SpriteTags \ (1..4), l \in 1..4}

\* what follows the kind and the parameter count of an action on its own
ActionTails ==
    {<<>>,
     CStr(<<97>>) \o CStr(<<98>>) \o CStr(<<99>>) \o CStr(<<100>>) \o CStr(<<101>>)
         \o CStr(<<102>>) \o CStr(<<103>>),
     CStr(Optimized) \o CStr(<<98>>) \o CStr(<<99>>) \o CStr(<<>>) \o <<50, 50, 0, 0>>,
     LE32(5) \o LE16(1) \o LE16(2) \o LE16(3) \o <<0>>}

ActionRecords ==
    {<<k, c>> \o tail : k \in 0..11, c \in 0..MaxParam, tail \in ActionTails}

Prefixes(r) == {SubSeq(r, 1, n) : n \in 0..Len(r)}

\* the cursors decoding starts from: a record, or a record cut short
Cursors ==
    UNION {{[bytes |-> c, position |-> 0, whole |-> r] : c \in Prefixes(r)} :
              r \in AnimationRecords}
    \cup {[bytes |-> r, position |-> 0, whole |-> r] :
        r \in UngatedRecords \cup SpriteRecords \cup UngatedSprites
                  \cup BadTagRecords \cup ActionRecords}

Builds == {"debug", "release"}

IdleAllButDecode == IdleTraversal /\ IdleReader /\ IdleColor /\ IdleGui /\ IdleHost

InitDecode ==
    /\ cursor \in Cursors
    /\ decoded = NoneV
    /\ IdleAllButDecode

\* cursor.decode::<T>() for the type named by entry, in either build; the
\* cursor moves on when the decode succeeds
DecodeStep(entry) ==
    /\ decoded = NoneV
    /\ \E build \in Builds :
         LET res == DecodeAs(entry, cursor.bytes, cursor.position, build)
         IN  /\ decoded' = Some([entry |-> entry, build |-> build, res |-> res,
                                 measured |-> NoneV])
             /\ cursor' = IF res.ok THEN [cursor EXCEPT !.position = res.pos] ELSE cursor
    /\ UNCHANGED <<travVars, readVars, colorVars, guiVars, hostVars>>

DecodeAnimationStep == DecodeStep("Animation")
DecodeSpriteStep == DecodeStep("Sprite")
DecodeActionStep == DecodeStep("Action")

\* the integer an f32 holds, for the f32 that hold one
IsIntegral(x) == x[2] >= 0
IntOf(x) == x[1] * 2^x[2]

\* the shape as Measure::render reads it: offsets, width as f32, height as f32
Measured(shape) ==
    [id |-> shape.id, width |-> shape.width, height |-> shape.height,
     offset_x |-> IntOf(shape.offset_x), offset_y |-> IntOf(shape.offset_y)]

\* Measure::render of one shape of the decoded animation under scale(1, 1),
\* from Measure::default()
MeasureShapeStep ==
    /\ decoded.some
    /\ decoded.v.entry = "Animation"
    /\ decoded.v.res.ok
    /\ ~decoded.v.measured.some
    /\ \E id \in DOMAIN decoded.v.res.v.shapes :
         LET shape == decoded.v.res.v.shapes[id]
         IN  /\ IsIntegral(shape.offset_x) /\ IsIntegral(shape.offset_y)
             /\ decoded' = Some([decoded.v EXCEPT !.measured =
                                    Some([id |-> id,
                                          box |-> MeasureRender(BoxDefault, Measured(shape),
                                                                Scale(1, 1))])])
    /\ UNCHANGED <<cursor, travVars, readVars, colorVars, guiVars, hostVars>>

NextDecode ==
    DecodeAnimationStep \/ DecodeSpriteStep \/ DecodeActionStep \/ MeasureShapeStep

SpecDecode == InitDecode /\ [][NextDecode]_vars

-----------------------------------------------------------------------------
(* C13: truncation of an animation record *)

\* the outcome of decode::<T>() in the state, for the entry T
Outcome(entry) == decoded.some /\ decoded.v.entry = entry

\* the record the cursor was cut from decodes, to its last byte
WholeIsValid ==
    LET whole == DecodeAnimation(cursor.whole, 0, decoded.v.build)
    IN  whole.ok /\ whole.pos = Len(cursor.whole)

Truncated == Len(cursor.bytes) < Len(cursor.whole)

\* the list of imports of the result was read, and ends where the decode ended
ImportsReadLast(res, build) ==
    \E q \in 0..res.pos :
        LET imports == DecodePrefixed("u16", "Import", cursor.bytes, q, build)
        IN  imports.ok /\ imports.pos = res.pos /\ imports.v = res.v.imports

\* C13: Animation::decode of a proper prefix of a valid animation record
\* returns an error (the end of the input) and no Animation, and a successful
\* decode has read the list of imports, which ends where the decode ended.
C13_TruncationIsAnError ==
    Outcome("Animation") =>
        /\ (WholeIsValid /\ Truncated) =>
               ~decoded.v.res.ok /\ decoded.v.res.why = "eof"
        /\ decoded.v.res.ok => ImportsReadLast(decoded.v.res, decoded.v.build)

\* a valid record with imports, cut inside its last import, was decoded
C13_Witness ==
    /\ Outcome("Animation")
    /\ WholeIsValid
    /\ Len(cursor.bytes) = Len(cursor.whole) - 1
    /\ DecodeAnimation(cursor.whole, 0, decoded.v.build).v.imports # <<>>
    /\ ~decoded.v.res.ok

-----------------------------------------------------------------------------
(* C14: the optional sections *)

\* the decode_opt calls made for a field, in order
Entries(log, field) == SelectSeq(log, LAMBDA e : e.field = field)

\* one decode_opt call did as its gate says: bytes were consumed and the
\* field is Some, or no byte was consumed and the field is None
Gated(e, gate, field) ==
    /\ e.present = gate
    /\ field.some = gate
    /\ gate => e.to > e.from
    /\ ~gate => e.to = e.from

\* the u16 at position p of the bytes of the cursor
U16At(p) == cursor.bytes[p + 1] + 256 * cursor.bytes[p + 2]

AnimationSectionsGated(res) ==
    LET version == cursor.bytes[1]
        index == Entries(res.log, "Animation.index")
        texture == Entries(res.log, "Animation.texture")
        transform == Entries(res.log, "Animation.transform")
    IN  /\ Len(index) = 1 /\ Len(texture) = 1 /\ Len(transform) = 1
        /\ index[1].from = 4
        /\ Gated(index[1], BitSet(version, 2), res.v.index)
        /\ texture[1].from = index[1].to + 2
        /\ Gated(texture[1], U16At(index[1].to) = 1, res.v.texture)
        /\ Gated(transform[1], BitSet(version, 16), res.v.transform)

SpriteNameGated(res) ==
    LET name == Entries(res.log, "Sprite.name")
    IN  /\ Len(name) = 1
        /\ name[1].from = 4
        /\ Gated(name[1], BitSet(cursor.bytes[4], 64), res.v.name.name)

\* C14: a successful Animation::decode has consumed bytes for the index iff
\* bit 0x02 of the version is set, for the transform table iff bit 0x10 is
\* set, for the texture iff the texture count is 1, and a successful
\* Sprite::decode has consumed bytes for the name iff bit 0x40 of the flags
\* is set; where the gate is false no byte is consumed and the field is None.
C14_OptionalSectionsGated ==
    /\ (Outcome("Animation") /\ decoded.v.res.ok) => AnimationSectionsGated(decoded.v.res)
    /\ (Outcome("Sprite") /\ decoded.v.res.ok) => SpriteNameGated(decoded.v.res)

\* a record with a transform table, no index and two textures announced was
\* decoded, with one sprite that has a name and one that has none
C14_Witness ==
    /\ Outcome("Animation")
    /\ decoded.v.res.ok
    /\ cursor.bytes[1] = 16
    /\ U16At(4) = 2
    /\ decoded.v.res.v.transform.some
    /\ ~decoded.v.res.v.texture.some
    /\ ~decoded.v.res.v.index.some
    /\ \E i, j \in 1..Len(decoded.v.res.log) :
           /\ decoded.v.res.log[i].field = "Sprite.name" /\ decoded.v.res.log[i].present
           /\ decoded.v.res.log[j].field = "Sprite.name" /\ ~decoded.v.res.log[j].present

-----------------------------------------------------------------------------
(* C15: the tag of a sprite *)

\* the tag byte of the sprite at position p of the bytes, as an i8
TagAt(p) == IF p < Len(cursor.bytes) THEN DecodeI8(cursor.bytes, p).v ELSE 0

\* the payload a tag announces, read from position q on
PayloadOfTag(tag, q, build) ==
    LET i16 == DecodeI16(cursor.bytes, q)
        ids == DecodePrefixed("u16", "i16", cursor.bytes, q, build)
        pos == DecodePrefixed("u16", "i32", cursor.bytes, q, build)
    IN  CASE tag = 1 ->
               Single(i16.v, DecodePrefixed("u16", "i16", cursor.bytes, q + 2, build).v)
          [] tag = 2 -> SingleNoAction(i16.v)
          [] tag = 3 ->
               SingleFrame(ids.v, DecodePrefixed("u16", "i16", cursor.bytes, ids.pos, build).v)
          [] tag = 4 ->
               LET info == DecodePrefixed("u16", "i16", cursor.bytes, pos.pos, build)
               IN  Indexed(pos.v, info.v,
                           DecodePrefixed("u16", "i16", cursor.bytes, info.pos, build).v)

\* where the payload of the sprite at the start of the bytes begins: behind
\* tag, id, flags, the name if any, and the two checksums
PayloadStart(res) == Entries(res.log, "Sprite.name")[1].to + 8

\* the first sprite of the record in the cursor has a tag outside 1..4
FirstSpriteHasBadTag ==
    /\ cursor.bytes \in BadTagRecords
    /\ TagAt(34) \notin 1..4

\* C15: Sprite::decode gives the payload its tag announces (1 Single, 2
\* SingleNoAction, 3 SingleFrame, 4 Indexed) with the fields read in that
\* order, and any other tag makes it, and Animation::decode of a record
\* holding such a sprite, return an error whatever bytes follow.
C15_TagDispatch ==
    /\ Outcome("Sprite") =>
           /\ TagAt(0) \notin 1..4 => ~decoded.v.res.ok
           /\ decoded.v.res.ok =>
                  decoded.v.res.v.payload =
                      PayloadOfTag(TagAt(0), PayloadStart(decoded.v.res), decoded.v.build)
    /\ (Outcome("Animation") /\ FirstSpriteHasBadTag) => ~decoded.v.res.ok

\* a sprite with tag 5 in front of the payload and the frame data of an
\* Indexed sprite was decoded, and gave the error of the tag
C15_Witness ==
    /\ Outcome("Sprite")
    /\ TagAt(0) = 5
    /\ cursor.bytes = SpriteBytes(5, 4, 5, 0, 1)
    /\ ~decoded.v.res.ok
    /\ decoded.v.res.why = "case"

-----------------------------------------------------------------------------
(* C16: the arguments of an action *)

\* the position behind n strings read from position q on, -1 if the bytes
\* end before
RECURSIVE SkipStrings(_, _, _)
SkipStrings(b, q, n) ==
    IF n <= 0 \/ q < 0 THEN q
    ELSE LET z == ZeroFrom(b, q)
         IN  IF z < 0 THEN -1 ELSE SkipStrings(b, z + 1, n - 1)

\* the position q + n if q is a position and n more bytes are there, else -1
SkipBytes(b, q, n) == IF q >= 0 /\ q + n <= Len(b) THEN q + n ELSE -1

\* (p - 1) / 2 and p - 1 as counts: none below one parameter
HalfOfRest(count) == IF count >= 1 THEN (count - 1) \div 2 ELSE 0
Rest(count) == IF count >= 1 THEN count - 1 ELSE 0

\* where an action of the given kind and parameter count ends if it reads
\* the arguments listed for its kind; -1 if the bytes end before
ArityEnd(b, kind, count) ==
    CASE kind = 1 -> SkipBytes(b, SkipStrings(b, 2, 1), IF count = 2 THEN 1 ELSE 0)
      [] kind \in {2, 5, 6, 7} -> 2
      [] kind = 3 -> SkipStrings(b, 2, 1)
      [] kind = 4 ->
           LET first == SkipStrings(b, 2, 1)
           IN  IF first < 0 THEN -1
               ELSE IF SubSeq(b, 3, first - 1) = Optimized
               THEN SkipBytes(b, SkipStrings(b, first, HalfOfRest(count)), HalfOfRest(count))
               ELSE SkipStrings(b, first, Rest(count))
      [] kind = 8 ->
           SkipStrings(b, 2, 2 * HalfOfRest(count) + (IF count % 2 = 1 THEN 1 ELSE 0))
      [] kind = 9 ->
           SkipBytes(b, 2, 4 + (IF count > 1 THEN 2 ELSE 0) + (IF count > 2 THEN 2 ELSE 0)
                               + (IF count > 3 THEN 2 ELSE 0))
      [] kind = 10 -> SkipBytes(b, 2, 1)

\* the decode of the action in the cursor read the arguments listed for its
\* kind and parameter count and nothing else, or failed on an unknown kind
ReadsItsArity(res) ==
    LET kind == cursor.bytes[1]
        count == cursor.bytes[2]
    IN  IF kind \notin 1..10 THEN ~res.ok /\ res.why = "case"
        ELSE LET end == ArityEnd(cursor.bytes, kind, count)
             IN  IF end < 0 THEN ~res.ok /\ res.why = "eof"
                 ELSE res.ok /\ res.pos = end

\* the optional arguments of the result are there exactly when the parameter
\* count says so
OptionalsByCount(res) ==
    LET count == cursor.bytes[2]
    IN  /\ res.v.kind = "GoTo" => res.v.percent.some = (count = 2)
        /\ res.v.kind = "GoToIfPrevious" =>
               /\ res.v.default.some = (count % 2 = 1)
               /\ Len(res.v.previous) = HalfOfRest(count)
               /\ Len(res.v.next) = HalfOfRest(count)
        /\ res.v.kind = "AddParticle" =>
               /\ res.v.offset_x.some = (count > 1)
               /\ res.v.offset_y.some = (count > 2)
               /\ res.v.offset_z.some = (count > 3)
        /\ res.v.kind = "GoToRandom" =>
               IF res.v.names # <<>> /\ res.v.names[1] = Optimized
               THEN Len(res.v.names) = 1 + HalfOfRest(count)
                        /\ Len(res.v.percents) = HalfOfRest(count)
               ELSE Len(res.v.names) = Rest(count) /\ res.v.percents = <<>>

\* C16: Action::decode reads, behind the kind and the parameter count p, the
\* arguments of its kind: a name and a percent iff p = 2 (kind 1); the
\* particle id and offset x iff p > 1, y iff p > 2, z iff p > 3 (kind 9);
\* (p-1)/2 pairs of strings and a default iff p is odd (kind 8); a first
\* string and (p-1)/2 names and percents if it is "#optimized", else p-1
\* names (kind 4); one string (kind 3); one byte (kind 10); nothing (kinds 2,
\* 5, 6, 7); and a kind outside 1..10 is an error.
C16_ActionArity ==
    (Outcome("Action") /\ cursor.bytes \in ActionRecords) =>
        /\ ReadsItsArity(decoded.v.res)
        /\ decoded.v.res.ok => OptionalsByCount(decoded.v.res)

\* the same for the actions that have at least one parameter, if their kind
\* is 4 or 8
ActionArityWithParameters ==
    (Outcome("Action") /\ cursor.bytes \in ActionRecords
         /\ (cursor.bytes[1] \in {4, 8} => cursor.bytes[2] >= 1)) =>
        /\ ReadsItsArity(decoded.v.res)
        /\ decoded.v.res.ok => OptionalsByCount(decoded.v.res)

-----------------------------------------------------------------------------
(* C17: the maps of shapes and sprites *)

\* the list of shapes and the list of sprites the decode read: they begin
\* where the texture and the transform table end
ShapesRead(res, build) ==
    DecodePrefixed("u16", "Shape", cursor.bytes,
                   Entries(res.log, "Animation.texture")[1].to, build).v

SpritesRead(res, build) ==
    DecodePrefixed("u16", "Sprite", cursor.bytes,
                   Entries(res.log, "Animation.transform")[1].to, build).v

\* the map holds, for each id of the list, the last element with that id,
\* and nothing else
LastWriterWins(map, list) ==
    LET ids == {list[i].id : i \in 1..Len(list)}
        last(id) == CHOOSE i \in 1..Len(list) :
                        /\ list[i].id = id
                        /\ \A j \in (i + 1)..Len(list) : list[j].id # id
    IN  /\ DOMAIN map = ids
        /\ Cardinality(DOMAIN map) = Cardinality(ids)
        /\ \A id \in ids : map[id] = list[last(id)]

\* C17: the shape map and the sprite map of a decoded Animation hold, for
\* every id of the decoded list, the last element of the list with that id;
\* there are as many entries as distinct ids.
C17_LastWriterWins ==
    (Outcome("Animation") /\ decoded.v.res.ok) =>
        /\ LastWriterWins(decoded.v.res.v.shapes,
                          ShapesRead(decoded.v.res, decoded.v.build))
        /\ LastWriterWins(decoded.v.res.v.sprites,
                          SpritesRead(decoded.v.res, decoded.v.build))

\* a record of three shapes, the first and the third with id 1 and of
\* different sizes, and of three sprites, two with id 5, was decoded
C17_Witness ==
    /\ Outcome("Animation")
    /\ decoded.v.res.ok
    /\ LET shapes == ShapesRead(decoded.v.res, decoded.v.build)
           sprites == SpritesRead(decoded.v.res, decoded.v.build)
       IN  /\ Len(shapes) = 3
           /\ shapes[1].id = 1 /\ shapes[3].id = 1 /\ shapes[1] # shapes[3]
           /\ decoded.v.res.v.shapes[1] = shapes[3]
           /\ Cardinality(DOMAIN decoded.v.res.v.shapes) = 2
           /\ Len(sprites) = 3
           /\ Cardinality(DOMAIN decoded.v.res.v.sprites) = 2

-----------------------------------------------------------------------------
(* C18: the minimal container *)

\* version 0x00, an i16, frame rate 30, texture count 0, one shape (id 1,
\* texture 0, uv 0, 0, 65535, 65535, 64 x 64, offset 0.0, 0.0), no sprite,
\* no import
MinimalContainer ==
    <<0, 0, 0, 30, 0, 0, 1, 0,
      1, 0, 0, 0, 0, 0, 0, 0, 255, 255, 255, 255, 64, 0, 64, 0, 0, 0, 0, 0, 0, 0, 0, 0,
      0, 0, 0, 0>>

MinimalDecoded ==
    [id |-> 1, texture_index |-> 0, top |-> F(0), left |-> F(0), bottom |-> F(1),
     right |-> F(1), width |-> 64, height |-> 64, offset_x |-> F(0), offset_y |-> F(0)]

\* the box [x0, y0, x1, y1]
BoxOf(x0, y0, x1, y1) == [min |-> <<x0, y0>>, max |-> <<x1, y1>>]

\* C18: the minimal container decodes to an Animation with no index, no
\* texture, no transform table, the one shape under id 1 and no sprite, and
\* measuring a shape of offset (ox, oy) and size w x h at scale 1 gives the
\* box [ox, oy, ox + w, oy + h]: [0, 0, 64, 64] for the shape of the minimal
\* container.
C18_MinimalContainer ==
    /\ (Outcome("Animation") /\ cursor.bytes = MinimalContainer) =>
           /\ decoded.v.res.ok
           /\ decoded.v.res.v.frame_rate = 30
           /\ ~decoded.v.res.v.index.some
           /\ ~decoded.v.res.v.texture.some
           /\ ~decoded.v.res.v.transform.some
           /\ DOMAIN decoded.v.res.v.shapes = {1}
           /\ decoded.v.res.v.shapes[1] = MinimalDecoded
           /\ DOMAIN decoded.v.res.v.sprites = {}
           /\ decoded.v.res.v.imports = <<>>
           /\ decoded.v.measured.some => decoded.v.measured.v.box = BoxOf(0, 0, 64, 64)
    /\ (Outcome("Animation") /\ decoded.v.measured.some) =>
           LET shape == decoded.v.res.v.shapes[decoded.v.measured.v.id]
               ox == IntOf(shape.offset_x)
               oy == IntOf(shape.offset_y)
           IN  (shape.width >= 0 /\ shape.height >= 0) =>
                   decoded.v.measured.v.box =
                       BoxOf(ox, oy, ox + shape.width, oy + shape.height)

\* the minimal container was decoded and its shape measured
C18_Witness ==
    /\ Outcome("Animation")
    /\ cursor.bytes = MinimalContainer
    /\ decoded.v.res.ok
    /\ decoded.v.measured.some
    /\ decoded.v.measured.v.id = 1
    /\ decoded.v.measured.v.box = BoxOf(0, 0, 64, 64)

-----------------------------------------------------------------------------
(* C19: the frame count *)

\* the frame count as the claim words it
FrameCountAsClaimed(sprite) ==
    IF sprite.payload.tag = "Indexed"
    THEN Len(sprite.payload.frame_pos) \div StrideOf(sprite)
    ELSE 1

\* C19: Sprite::frame_count of an Indexed sprite is the length of its
\* frame-position table divided by the stride (3 if the action-id list is
\* non-empty, else 2) and 1 for every other payload, and render_sprite
\* addresses the table with the same stride: a call on an Indexed sprite at
\* frame f starts its reader at the offset held at (f mod frame_count) * stride.
C19_FrameCount ==
    /\ \A id \in DOMAIN anm.sprites :
           FrameCount(anm.sprites[id]) = FrameCountAsClaimed(anm.sprites[id])
    /\ \A s \in Sessions : \A i \in IndexedCalls(s) :
           LET e == trace[s][i]
               sprite == anm.sprites[e.sprite]
               f == input[s].v.frame
               index == (f % FrameCountAsClaimed(sprite)) * StrideOf(sprite)
           IN  e.pos = AsUsize(sprite.payload.frame_pos[index + 1])

\* render_sprite was entered at frame 1 on an Indexed sprite with an action
\* list and six frame positions: two frames of stride 3, the second address 3
C19_Witness ==
    \E i \in IndexedCalls(1) :
        LET sprite == anm.sprites[trace[1][i].sprite]
        IN  /\ sprite.payload.action_info # <<>>
            /\ Len(sprite.payload.frame_pos) = 6
            /\ FrameCount(sprite) = 2
            /\ input[1].v.frame = 1
            /\ trace[1][i].pos = AsUsize(sprite.payload.frame_pos[4])
            /\ \E id \in DOMAIN anm.sprites :
                   anm.sprites[id].payload.tag # "Indexed" /\ FrameCount(anm.sprites[id]) = 1

-----------------------------------------------------------------------------
(* The GUI: the render path (one frame: UiState::draw, then                 *)
(* AppState::handle_events) and the I/O worker (AppState::io_handler),      *)
(* joined by the ring buffer of requests and one oneshot channel per        *)
(* request.  channels[k] is the channel of the k-th request: state "open"   *)
(* until the worker has sent, "sent" while the value waits, "taken" once    *)
(* received; receiver says whether its Receiver still exists.               *)

MaxRequests == 4    \* RequestSprite events over a run

RingCapacity == 10  \* ringbuf::HeapRb::new(10)

SpriteIds == {1, 2}

IdleAllButGui == IdleTraversal /\ IdleReader /\ IdleColor /\ IdleDecode /\ IdleHost

\* AppState::new: nothing requested, no player, the worker spawned
InitGui ==
    /\ IdleAllButGui
    /\ events = <<>>
    /\ io_requests = <<>>
    /\ io_receiver = NoneV
    /\ channels = <<>>
    /\ worker = Some([pc |-> "pop", req |-> NoneV])
    /\ player = NoneV
    /\ current_sprite = NoneV
    /\ ui_error = NoneV
    /\ gui = "running"

\* the Receiver in io_receiver is dropped when the field is overwritten
DropReceiver(chs, rcv) ==
    IF rcv.some THEN [chs EXCEPT ![rcv.v].receiver = FALSE] ELSE chs

\* a RequestSprite arm that keeps the receiver of an earlier request while
\* it has one, and drops the new receiver instead
PushKeepReceiver(st, id) ==
    IF Len(st.io_requests) >= RingCapacity THEN [st EXCEPT !.gui = "panicked"]
    ELSE [st EXCEPT !.channels = Append(@, [id |-> id, state |-> "open", value |-> "",
                                            receiver |-> ~st.io_receiver.some]),
                    !.io_requests = Append(@, [id |-> id, sender |-> Len(st.channels) + 1]),
                    !.io_receiver = IF st.io_receiver.some THEN st.io_receiver
                                    ELSE Some(Len(st.channels) + 1)]

\* the RequestSprite arm: a new channel, the request pushed onto the ring
\* (push(..).unwrap() panics on a full ring), the receiver kept
Push(st, id) ==
    IF Len(st.io_requests) >= RingCapacity THEN [st EXCEPT !.gui = "panicked"]
    ELSE [st EXCEPT !.channels = Append(DropReceiver(@, st.io_receiver),
                                        [id |-> id, state |-> "open", value |-> "",
                                         receiver |-> TRUE]),
                    !.io_requests = Append(@, [id |-> id, sender |-> Len(st.channels) + 1]),
                    !.io_receiver = Some(Len(st.channels) + 1)]

\* the keys of the sprite map of the animation of entry `id`
SpriteKeys(id) == IF id = 1 THEN {1, 2} ELSE {2, 3}

RequestSprite(id) == [kind |-> "RequestSprite", id |-> id]
SetSprite(id) == [kind |-> "SetSprite", id |-> id]

\* the SetSprite arm: player.set_sprite(id) if there is a player
PlayerSetSprite(st, id) ==
    IF st.player.some THEN [st EXCEPT !.current_sprite = Some(id)] ELSE st

\* for event in events
RECURSIVE PushAll(_, _)
PushAll(st, evs) ==
    IF evs = <<>> \/ st.gui # "running" THEN st
    ELSE PushAll(IF Head(evs).kind = "RequestSprite" THEN Push(st, Head(evs).id)
                 ELSE PlayerSetSprite(st, Head(evs).id),
                 Tail(evs))

\* AppState::draw: player.current_sprite() unwraps the sprite of the current id
Draw(pl, chs, cs, g) ==
    IF g = "running" /\ pl.some /\ cs.v \notin SpriteKeys(chs[pl.v].id)
    THEN "panic_sprite"
    ELSE g

\* update_canvas: handle_events on the events evs, then draw; texture says
\* whether the texture of a response can be built, first is the key that
\* animation.sprites.keys().next() gives AnimationPlayer::new
HandleEvents(evs, texture, first) ==
    LET arrived == io_receiver.some /\ channels[io_receiver.v].state = "sent"
        taken == [channels EXCEPT ![io_receiver.v].state = "taken"]
        failed == arrived /\ (channels[io_receiver.v].value = "err" \/ ~texture)
        st == PushAll([channels |-> IF arrived THEN DropReceiver(taken, io_receiver)
                                    ELSE channels,
                       io_requests |-> io_requests,
                       io_receiver |-> IF arrived THEN NoneV ELSE io_receiver,
                       player |-> IF arrived THEN Some(io_receiver.v) ELSE player,
                       current_sprite |-> IF arrived THEN Some(first) ELSE current_sprite,
                       gui |-> gui], evs)
    IN  IF failed
        THEN \* unwrap_result sets the error and handle_events returns
             /\ channels' = taken
             /\ ui_error' = Some(io_receiver.v)
             /\ events' = evs
             /\ gui' = Draw(player, channels, current_sprite, gui)
             /\ UNCHANGED <<io_requests, io_receiver, player, current_sprite>>
        ELSE /\ player' = st.player
             /\ current_sprite' = st.current_sprite
             /\ events' = <<>>
             /\ ui_error' = IF evs = <<>> THEN ui_error ELSE NoneV
             /\ channels' = st.channels
             /\ io_requests' = st.io_requests
             /\ io_receiver' = st.io_receiver
             /\ gui' = Draw(st.player, st.channels, st.current_sprite, st.gui)

\* the clicks UiState::draw can turn into an event: an entry of the entity
\* list, or a name of the sprite list of the animation on display
Clicks ==
    {<<>>} \cup {<<RequestSprite(id)>> : id \in SpriteIds}
           \cup (IF player.some
                 THEN {<<SetSprite(k)>> : k \in SpriteKeys(channels[player.v].id)}
                 ELSE {})

Requests(evs) == SelectSeq(evs, LAMBDA e : e.kind = "RequestSprite")

\* one frame of the render thread: UiState::draw, where a click adds an
\* event, then update_canvas
Frame ==
    /\ gui = "running"
    /\ \E click \in Clicks :
         /\ Requests(click) # <<>> =>
              Len(channels) + Len(Requests(events)) < MaxRequests
         /\ \E texture \in BOOLEAN :
              \E first \in (IF io_receiver.some
                            THEN SpriteKeys(channels[io_receiver.v].id) ELSE {0}) :
                HandleEvents(events \o click, texture, first)
    /\ UNCHANGED <<worker, travVars, readVars, colorVars, decodeVars, hostVars>>

\* a worker that takes the request pushed last
WorkerPopNewest ==
    /\ gui = "running"
    /\ worker.v.pc = "pop"
    /\ io_requests # <<>>
    /\ worker' = Some([pc |-> "load", req |-> Some(io_requests[Len(io_requests)])])
    /\ io_requests' = SubSeq(io_requests, 1, Len(io_requests) - 1)
    /\ UNCHANGED <<events, io_receiver, channels, player, current_sprite, ui_error, gui,
                   travVars, readVars, colorVars, decodeVars, hostVars>>

\* io_handler: consumer.pop() gives a request.  The worker is a thread of the
\* process of the render thread: a panic of the render thread, which is the
\* main thread, ends it too.
WorkerPop ==
    /\ gui = "running"
    /\ worker.v.pc = "pop"
    /\ io_requests # <<>>
    /\ worker' = Some([pc |-> "load", req |-> Some(Head(io_requests))])
    /\ io_requests' = Tail(io_requests)
    /\ UNCHANGED <<events, io_receiver, channels, player, current_sprite, ui_error, gui,
                   travVars, readVars, colorVars, decodeVars, hostVars>>

\* a worker that sends only the loads that succeed
WorkerSendOnlyOk ==
    /\ gui = "running"
    /\ worker.v.pc = "load"
    /\ \E res \in {"ok", "err"} :
         LET k == worker.v.req.v.sender
         IN  channels' = IF channels[k].receiver /\ res = "ok"
                         THEN [channels EXCEPT ![k].state = "sent", ![k].value = res]
                         ELSE channels
    /\ worker' = Some([pc |-> "pop", req |-> NoneV])
    /\ UNCHANGED <<events, io_requests, io_receiver, player, current_sprite, ui_error, gui,
                   travVars, readVars, colorVars, decodeVars, hostVars>>

\* io_handler: the load ends one way or the other and req.sender.send(res).ok():
\* the value waits in the channel if the receiver still exists, else it is lost
WorkerSend ==
    /\ gui = "running"
    /\ worker.v.pc = "load"
    /\ \E res \in {"ok", "err"} :
         LET k == worker.v.req.v.sender
         IN  channels' = IF channels[k].receiver
                         THEN [channels EXCEPT ![k].state = "sent", ![k].value = res]
                         ELSE channels
    /\ worker' = Some([pc |-> "pop", req |-> NoneV])
    /\ UNCHANGED <<events, io_requests, io_receiver, player, current_sprite, ui_error, gui,
                   travVars, readVars, colorVars, decodeVars, hostVars>>

\* io_handler: consumer.pop() gives None, the worker sleeps for a frame time
WorkerSleep ==
    /\ gui = "running"
    /\ worker.v.pc = "pop"
    /\ io_requests = <<>>
    /\ worker' = Some([pc |-> "sleep", req |-> NoneV])
    /\ UNCHANGED <<events, io_requests, io_receiver, channels, player, current_sprite, ui_error, gui,
                   travVars, readVars, colorVars, decodeVars, hostVars>>

WorkerWake ==
    /\ gui = "running"
    /\ worker.v.pc = "sleep"
    /\ worker' = Some([pc |-> "pop", req |-> NoneV])
    /\ UNCHANGED <<events, io_requests, io_receiver, channels, player, current_sprite, ui_error, gui,
                   travVars, readVars, colorVars, decodeVars, hostVars>>

NextGui == Frame \/ WorkerPop \/ WorkerSend \/ WorkerSleep \/ WorkerWake

SpecGui == InitGui /\ [][NextGui]_vars

\* the worker thread is scheduled again and again, a load comes to an end and
\* so does a sleep
WorkerFairness ==
    /\ WF_vars(WorkerPop) /\ WF_vars(WorkerSend)
    /\ WF_vars(WorkerSleep) /\ WF_vars(WorkerWake)

SpecGuiFair == SpecGui /\ WorkerFairness

-----------------------------------------------------------------------------
(* C20: requests outstanding *)

\* the requests issued and not yet answered: those in the ring and the one
\* the worker is loading
Outstanding == Len(io_requests) + (IF worker.v.pc = "load" THEN 1 ELSE 0)

\* C20: at every moment at most one SpriteRequest has been issued and not
\* yet answered.
C20_AtMostOneOutstanding == Outstanding <= 1

-----------------------------------------------------------------------------
(* C21: a request supersedes the ones before it *)

\* the requests the worker has done with: neither in the ring nor being loaded
Served(k) ==
    /\ k \in 1..Len(channels)
    /\ \A i \in 1..Len(io_requests) : io_requests[i].sender # k
    /\ ~(worker.v.pc = "load" /\ worker.v.req.v.sender = k)

\* C21: whenever a response is installed as the player it is the response to
\* the request issued last, so that no response to a request is installed
\* once a later request has been issued; and a send of the worker on a channel
\* whose receiver was dropped changes nothing and leaves the worker serving.
C21_OnlyLatestInstalled ==
    [][/\ player' # player =>
              /\ player' = Some(Len(channels))
              /\ channels[Len(channels)].state = "sent"
       /\ (worker.v.pc = "load" /\ worker' # worker
               /\ ~channels[worker.v.req.v.sender].receiver) =>
              /\ channels' = channels
              /\ worker'.v.pc = "pop"
              /\ gui' = gui /\ player' = player /\ ui_error' = ui_error]_vars

\* request 1 was superseded before its response was taken: the worker's send
\* on its channel failed, and the response to request 2 was installed
C21_Witness ==
    /\ Len(channels) >= 2
    /\ Served(1)
    /\ channels[1].state = "open"
    /\ ~channels[1].receiver
    /\ player = Some(2)

-----------------------------------------------------------------------------
(* C22: load failures *)

\* an Err waits in the channel the render path listens on
ErrWaits ==
    /\ io_receiver.some
    /\ channels[io_receiver.v].state = "sent"
    /\ channels[io_receiver.v].value = "err"

-----------------------------------------------------------------------------
(* The backends that cache by shape id: QuicksilverBackend keeps an        *)
(* AtlasSprite per shape id, the loop of run_renderer a SpriteVertex per   *)
(* shape id.                                                                *)

MaxInstalls == 2    \* atlases installed, commands accepted, in one session

HostAnimations == {1, 2}
HostShapeIds == {1, 2}
HostTextures == {1, 2}
HostSpriteNames == {"Idle", "Walk"}

\* the shape `id` of animation `a`: the two animations place it differently
HostShape(a, id) ==
    [id |-> id, width |-> a + id, left |-> a, right |-> a + id]

\* the names of the sprites of animation `a`
HostSprites(a) == IF a = 1 THEN {"Idle"} ELSE {"Idle", "Walk"}

NoCache == <<>>

\* HashMap::entry(k).or_insert_with(make): the entry and whether it was made
EntryOrInsert(map, k, made) ==
    IF k \in DOMAIN map
    THEN [map |-> map, entry |-> map[k], built |-> FALSE]
    ELSE [map |-> [x \in DOMAIN map \cup {k} |-> IF x = k THEN made ELSE map[x]],
          entry |-> made, built |-> TRUE]

\* Atlas::new over the image of a texture; serial tells one Rc<Atlas> from another
Atlas(texture, serial) ==
    [image |-> texture, size |-> 2 * texture, serial |-> serial]

\* AtlasSprite::new
AtlasSprite(atlas, shape) ==
    [atlas |-> atlas,
     region |-> <<shape.left * atlas.size, (shape.right - shape.left) * atlas.size>>,
     location |-> <<0, shape.width>>]

\* QuicksilverBackend::new
BackendNew ==
    [atlas |-> NoneV, installs |-> 0, sprites |-> NoCache, drawn |-> NoneV,
     state |-> "running"]

\* an install that keeps the sprites of the atlas before
SetAtlasKeepSprites ==
    /\ backend.some /\ backend.v.state = "running"
    /\ backend.v.installs < MaxInstalls
    /\ \E texture \in HostTextures, from_raw \in BOOLEAN :
         backend' = Some(IF from_raw
                         THEN [backend.v EXCEPT
                                 !.atlas = Some(Atlas(texture, backend.v.installs + 1)),
                                 !.installs = @ + 1]
                         ELSE [backend.v EXCEPT !.state = "panicked"])
    /\ UNCHANGED <<window, ap, travVars, readVars, colorVars, decodeVars, guiVars>>

\* QuicksilverBackend::set_atlas: Image::from_raw(..).unwrap(), then the cache
\* is cleared and the atlas replaced
SetAtlas ==
    /\ backend.some /\ backend.v.state = "running"
    /\ backend.v.installs < MaxInstalls
    /\ \E texture \in HostTextures, from_raw \in BOOLEAN :
         backend' = Some(IF from_raw
                         THEN [backend.v EXCEPT
                                 !.sprites = NoCache,
                                 !.atlas = Some(Atlas(texture, backend.v.installs + 1)),
                                 !.installs = @ + 1]
                         ELSE [backend.v EXCEPT !.state = "panicked"])
    /\ UNCHANGED <<window, ap, travVars, readVars, colorVars, decodeVars, guiVars>>

\* impl Render for QuicksilverBackend: one shape of whatever animation the
\* caller renders
BackendRender ==
    /\ backend.some /\ backend.v.state = "running"
    /\ \E a \in HostAnimations, id \in HostShapeIds :
         backend' = Some(
           IF ~backend.v.atlas.some
           THEN [backend.v EXCEPT !.state = "panicked"]
           ELSE LET e == EntryOrInsert(backend.v.sprites, id,
                                       AtlasSprite(backend.v.atlas.v, HostShape(a, id)))
                IN  [backend.v EXCEPT
                       !.sprites = e.map,
                       !.drawn = Some([id |-> id, with |-> e.entry, built |-> e.built])])
    /\ UNCHANGED <<window, ap, travVars, readVars, colorVars, decodeVars, guiVars>>

\* SpriteVertex::new reads the shape only; `epoch` remembers the command that
\* was current when it was made
SpriteVertex(shape, epoch) ==
    [uv |-> <<shape.left, shape.right>>, width |-> shape.width, epoch |-> epoch]

\* the state of the closure of run_renderer before the first event
WindowNew ==
    [current_animation |-> NoneV, current_sprite |-> NoneV, current_texture |-> NoneV,
     vertexes |-> NoCache, accepted |-> 0, drawn |-> <<>>,
     state |-> "running"]

\* impl Render for RenderState, shape after shape
RECURSIVE DrawShapes(_, _, _, _)
DrawShapes(vertexes, shapes, epoch, drawn) ==
    IF shapes = <<>>
    THEN [vertexes |-> vertexes, drawn |-> drawn]
    ELSE LET e == EntryOrInsert(vertexes, Head(shapes).id, SpriteVertex(Head(shapes), epoch))
         IN  DrawShapes(e.map, Tail(shapes), epoch,
                        Append(drawn, [id |-> Head(shapes).id, with |-> e.entry,
                                       built |-> e.built]))

\* the shapes a traversal of the current sprite hands to the backend
HostDraws(a) ==
    {<<>>} \cup {<<HostShape(a, i)>> : i \in HostShapeIds}
           \cup {<<HostShape(a, i), HostShape(a, j)>> : i \in HostShapeIds, j \in HostShapeIds}

\* an accepted RenderCommand: clear, Texture::new(..).expect, the sprite by name
Accept(w, command, texture_ok) ==
    IF ~texture_ok
    THEN [w EXCEPT !.vertexes = NoCache, !.state = "panicked"]
    ELSE [w EXCEPT
            !.vertexes = NoCache,
            !.accepted = @ + 1,
            !.current_texture = Some([image |-> command.image, serial |-> w.accepted + 1]),
            !.current_sprite = IF command.sprite \in HostSprites(command.animation)
                               THEN Some(command.sprite) ELSE NoneV,
            !.current_animation = Some(command.animation)]

RenderCommands ==
    {[animation |-> a, image |-> t, sprite |-> n] :
        a \in HostAnimations, t \in HostTextures, n \in HostSpriteNames}

\* Event::RedrawRequested: the current sprite is drawn if animation, sprite and
\* texture are there, then receiver.try_recv().  The frame counter decides
\* nothing but the shapes the traversal reaches, which are chosen freely here.
Redraw ==
    /\ window.some /\ window.v.state = "running"
    /\ LET w == window.v
           ready == w.current_animation.some /\ w.current_sprite.some
                    /\ w.current_texture.some
       IN  \E shapes \in (IF ready THEN HostDraws(w.current_animation.v) ELSE {<<>>}),
              command \in {NoneV} \cup {Some(c) : c \in RenderCommands},
              texture_ok \in BOOLEAN :
             /\ command.some => w.accepted < MaxInstalls
             /\ ~command.some => texture_ok
             /\ LET d == DrawShapes(w.vertexes, shapes, w.accepted, <<>>)
                    drew == [w EXCEPT !.vertexes = d.vertexes, !.drawn = d.drawn]
                IN  window' = Some(IF command.some
                                   THEN Accept(drew, command.v, texture_ok)
                                   ELSE drew)
    /\ UNCHANGED <<backend, ap, travVars, readVars, colorVars, decodeVars, guiVars>>

\* a render session runs on one backend
HostKinds == {"quicksilver", "glow"}

InitCache ==
    /\ IdleTraversal /\ IdleReader /\ IdleColor /\ IdleDecode /\ IdleGui
    /\ \E host \in HostKinds :
         /\ backend = IF host = "quicksilver" THEN Some(BackendNew) ELSE NoneV
         /\ window = IF host = "glow" THEN Some(WindowNew) ELSE NoneV
    /\ ap = NoneV

NextCache == SetAtlas \/ BackendRender \/ Redraw

SpecCache == InitCache /\ [][NextCache]_vars

-----------------------------------------------------------------------------
(* C23: the cache by shape id and the atlas it was filled under *)

\* every cached entry was made under what is installed now
CacheIsCurrent ==
    /\ backend.some =>
         \A id \in DOMAIN backend.v.sprites :
           /\ backend.v.atlas.some
           /\ backend.v.sprites[id].atlas = backend.v.atlas.v
    /\ window.some =>
         \A id \in DOMAIN window.v.vertexes :
           /\ window.v.current_animation.some
           /\ window.v.current_texture.some
           /\ window.v.current_texture.v.serial = window.v.accepted
           /\ window.v.vertexes[id] =
                SpriteVertex(HostShape(window.v.current_animation.v, id), window.v.accepted)

\* what a step of QuicksilverBackend keeps and reuses
BackendReuses ==
    /\ backend'.v.atlas # backend.v.atlas => backend'.v.sprites = NoCache
    /\ backend'.v.atlas = backend.v.atlas =>
         \A id \in DOMAIN backend.v.sprites :
           /\ id \in DOMAIN backend'.v.sprites
           /\ backend'.v.sprites[id] = backend.v.sprites[id]
           /\ (backend'.v.drawn # backend.v.drawn /\ backend'.v.drawn.v.id = id)
                => /\ ~backend'.v.drawn.v.built
                   /\ backend'.v.drawn.v.with = backend.v.sprites[id]
    /\ backend'.v.drawn # backend.v.drawn =>
         backend'.v.drawn.v.with.atlas = backend.v.atlas.v

\* what a redraw of run_renderer keeps and reuses
WindowReuses ==
    /\ (window'.v.current_texture # window.v.current_texture
          \/ window'.v.current_animation # window.v.current_animation)
         => window'.v.vertexes = NoCache
    /\ window' # window =>
         \A i \in 1..Len(window'.v.drawn) :
           LET d == window'.v.drawn[i]
           IN  /\ d.with.epoch = window.v.accepted
               /\ d.id \in DOMAIN window.v.vertexes
                    => ~d.built /\ d.with = window.v.vertexes[d.id]
               /\ \A j \in 1..(i - 1) :
                    window'.v.drawn[j].id = d.id
                      => ~d.built /\ d.with = window'.v.drawn[j].with

\* C23: every entry of a backend's cache was made while the atlas (for the
\* loop of run_renderer: the texture and the animation) installed now was
\* current; a step that installs an atlas or accepts a command leaves the
\* cache empty, so no shape is drawn from an older entry; and a draw of a shape
\* id that is cached uses the entry as it is, and builds none.
C23_CacheNeverOutlivesAtlas ==
    [][/\ CacheIsCurrent'
       /\ backend.some => BackendReuses
       /\ window.some => WindowReuses]_vars

\* the loop has accepted its second command, and the redraw after it drew
\* shape 1 twice and shape 2: one vertex built under the new command and reused
C23_Witness ==
    /\ window.some
    /\ window.v.accepted = 2
    /\ Len(window.v.drawn) = 2
    /\ window.v.drawn[1].id = 1 /\ window.v.drawn[1].built
    /\ window.v.drawn[2].id = 1 /\ ~window.v.drawn[2].built
    /\ window.v.drawn[1].with.epoch = 2
    /\ DOMAIN window.v.vertexes = {1}

-----------------------------------------------------------------------------
(* C24: invocations side by side *)

\* render_sprite run from its call to its return with nothing in between: the
\* pairs it hands to the sink and how it ends
RECURSIVE RenderLoop(_, _, _, _)
RenderSprite(a, sprite, transform, frame, depth) ==
    LET e == Enter(a, sprite, transform, frame, <<>>, 0)
    IN  IF e.panic # "" THEN [out |-> <<>>, status |-> e.panic]
        ELSE RenderLoop(a, e.frame, frame, depth)

RenderLoop(a, top, frame, depth) ==
    IF top.idx = Len(top.kids) THEN [out |-> <<>>, status |-> "done"]
    ELSE LET id == top.kids[top.idx + 1]
             rd == ReadTransformation(top.reader)
             transform == ChildTransform(rd.value.v, top.transform)
             kind == Resolve(a, id)
             rest == RenderLoop(a, Advance(top, rd.reader), frame, depth)
         IN  IF ~rd.value.some THEN [out |-> <<>>, status |-> "panic_transform"]
             ELSE IF kind = "sprite" /\ depth >= MaxDepth
             THEN [out |-> <<>>, status |-> "overflow"]
             ELSE IF kind = "sprite"
             THEN LET r == RenderSprite(a, a.sprites[id], transform, frame, depth + 1)
                  IN  IF r.status # "done" THEN r
                      ELSE [out |-> r.out \o rest.out, status |-> rest.status]
             ELSE IF kind = "shape"
             THEN [out |-> <<[shape |-> a.shapes[id], transform |-> transform]>> \o rest.out,
                   status |-> rest.status]
             ELSE rest

\* what invocation s emits and how it ends when it runs alone
Alone(s) ==
    RenderSprite(anm, anm.sprites[input[s].v.sprite], input[s].v.transform,
                 input[s].v.frame, 1)

SessionVars(s) == <<status[s], input[s], stack[s], out[s], bbox[s], trace[s]>>

\* C24: two invocations over one animation, each with its own sink, their
\* steps interleaved in any order: at every moment an invocation has emitted a
\* prefix of what it emits alone, it ends with exactly that sequence and the
\* same way, no step changes the animation, and a step of one invocation
\* changes nothing of the other.
C24_InterleavedAsAlone ==
    /\ [](\A s \in Sessions :
            input[s].some =>
              /\ IsPrefix(out[s], Alone(s).out)
              /\ Final(s) => (out[s] = Alone(s).out /\ status[s] = Alone(s).status))
    /\ [][/\ anm' = anm
          /\ \A s \in Sessions :
               SessionVars(s)' # SessionVars(s) =>
                 \A t \in Sessions \ {s} : SessionVars(t)' = SessionVars(t)]_vars

\* both invocations are under way at different frames, each has emitted
\* already and has more to emit, and what they emit alone differs
C24_Witness ==
    /\ status[1] = "running" /\ status[2] = "running"
    /\ input[1].v.sprite = input[2].v.sprite
    /\ input[1].v.frame # input[2].v.frame
    /\ Len(out[1]) >= 1 /\ Len(out[1]) < Len(Alone(1).out)
    /\ Len(out[2]) >= 1 /\ Len(out[2]) < Len(Alone(2).out)
    /\ Alone(1).out # Alone(2).out
    /\ Alone(1).status = "done" /\ Alone(2).status = "done"

-----------------------------------------------------------------------------
(* C25: sprites that reach themselves *)

\* the sprites the children of sprite `id` at `frame` resolve to
SpriteKids(a, id, frame) ==
    LET sel == SelectChildren(a.sprites[id], frame)
    IN  IF sel.panic # "" THEN {}
        ELSE {sel.kids[i] : i \in 1..Len(sel.kids)} \cap DOMAIN a.sprites

\* the sprites reached from the sprites of `set` in one or more steps
RECURSIVE ReachedFrom(_, _, _, _)
ReachedFrom(a, frame, set, seen) ==
    LET next == UNION {SpriteKids(a, id, frame) : id \in set}
    IN  IF next \subseteq seen THEN seen
        ELSE ReachedFrom(a, frame, next \ seen, seen \cup next)

\* the outer sprite of invocation s, or a sprite it reaches, reaches itself
ReachesItself(s) ==
    LET frame == input[s].v.frame
        start == input[s].v.sprite
    IN  \E x \in {start} \cup ReachedFrom(anm, frame, {start}, {}) :
            x \in ReachedFrom(anm, frame, {x}, {})

\* the sprites of the calls of invocation s that have not returned
OnStack(s) == [i \in 1..Len(stack[s]) |-> stack[s][i].sprite]

Repeats(q) == \E i, j \in 1..Len(q) : i < j /\ q[i] = q[j]

\* C25: an invocation returns only if no sprite reached from its outer sprite
\* reaches itself through the children selected at its frame, and it goes
\* deeper than any bound only if one does; a sprite is never entered below
\* itself in an invocation that returns or panics; and every call for a sprite
\* starts from the same reader position with the same children, whatever the
\* level.
C25_NoCycleGuard ==
    /\ status[1] = "done" => ~ReachesItself(1)
    /\ status[1] = "overflow" =>
         /\ ReachesItself(1)
         /\ LET top == Last(stack[1])
            IN  Repeats(Append(OnStack(1), top.kids[top.idx + 1]))
    /\ (Final(1) /\ status[1] # "overflow") => ~Repeats(OnStack(1))
    /\ Repeats(OnStack(1)) => status[1] \in {"running", "overflow"}
    /\ \A i, j \in 1..Len(trace[1]) :
         (/\ trace[1][i].ev = "enter" /\ trace[1][j].ev = "enter"
          /\ trace[1][i].sprite = trace[1][j].sprite)
            => /\ trace[1][i].pos = trace[1][j].pos
               /\ trace[1][i].kids = trace[1][j].kids
               /\ trace[1][i].kind = trace[1][j].kind

\* sprite 1 is on the stack three times over a tape that every level reads
\* from its start, and the next child is sprite 1 again
C25_Witness ==
    /\ status[1] = "overflow"
    /\ OnStack(1) = <<1, 2, 1>>
    /\ Len(out[1]) >= 1
    /\ ReachesItself(1)

-----------------------------------------------------------------------------
(* C26: the sprite the player is asked to draw *)

\* C26: whenever the render path has drawn, the current sprite id of the
\* player is a key of the sprite map of the animation the player was made
\* for, whatever the order of clicks, responses and frames.
C26_CurrentSpriteIsKey ==
    player.some =>
        /\ current_sprite.some
        /\ current_sprite.v \in SpriteKeys(channels[player.v].id)

-----------------------------------------------------------------------------
(* AnimationPlayer on its own: new, render, set_sprite, set_frame, and the *)
(* loop of write_frames.  The frame is a u32, kept as <<high, low>> halves  *)
(* of 16 bits.                                                              *)

MaxRenders == 3     \* render calls of one run

U32(n) == <<n \div 2^16, n % 2^16>>
U32Max == <<2^16 - 1, 2^16 - 1>>

\* the number after x, as a number: one past U32Max is <<2^16, 0>>
Successor(x) == IF x[2] < 2^16 - 1 THEN <<x[1], x[2] + 1>> ELSE <<x[1] + 1, 0>>

\* the frame counts of the sprites the players of the model show
PlayerFrameCount(a, k) == IF k = 2 THEN 2 ELSE 1

\* AnimationPlayer::new: some key of the sprite map, frame 0
PlayerNew(a, first, build) ==
    [animation |-> a, current_sprite |-> first, frame |-> U32(0), state |-> "running",
     build |-> build, op |-> "new", arg |-> 0, since |-> NoneV, rendered |-> <<>>]

\* AnimationPlayer::render: the sprite of the current id (unwrap), rendered at
\* the current frame, then self.frame += 1 on a u32: past u32::MAX a build
\* with overflow checks panics and one without wraps to 0
Render(p) ==
    IF p.state # "running" THEN p
    ELSE IF p.current_sprite \notin SpriteKeys(p.animation)
    THEN [p EXCEPT !.state = "panicked"]
    ELSE LET drew == [p EXCEPT !.rendered = Append(@, [sprite |-> p.current_sprite,
                                                       frame |-> p.frame, k |-> p.since]),
                               !.since = IF @.some THEN Some(@.v + 1) ELSE @]
         IN  IF p.frame # U32Max THEN [drew EXCEPT !.frame = Successor(@)]
             ELSE IF p.build = "debug" THEN [drew EXCEPT !.state = "panicked"]
             ELSE [drew EXCEPT !.frame = U32(0)]

RECURSIVE RenderTimes(_, _)
RenderTimes(p, n) == IF n = 0 THEN p ELSE RenderTimes(Render(p), n - 1)

PlayerRender ==
    /\ ap.some /\ ap.v.state = "running"
    /\ Len(ap.v.rendered) < MaxRenders
    /\ ap' = Some([Render(ap.v) EXCEPT !.op = "render", !.arg = 0])
    /\ UNCHANGED <<backend, window, travVars, readVars, colorVars, decodeVars, guiVars>>

\* AnimationPlayer::set_sprite
PlayerSetSpriteTo ==
    /\ ap.some /\ ap.v.state = "running"
    /\ \E s \in 1..3 :
         ap' = Some([ap.v EXCEPT !.current_sprite = s, !.frame = U32(0),
                                 !.since = Some(0), !.op = "set_sprite", !.arg = s])
    /\ UNCHANGED <<backend, window, travVars, readVars, colorVars, decodeVars, guiVars>>

\* AnimationPlayer::set_frame
PlayerSetFrame ==
    /\ ap.some /\ ap.v.state = "running"
    /\ \E n \in {U32(0), U32(2), U32(2^16 - 1), U32Max} :
         ap' = Some([ap.v EXCEPT !.frame = n, !.since = NoneV,
                                 !.op = "set_frame", !.arg = n])
    /\ UNCHANGED <<backend, window, travVars, readVars, colorVars, decodeVars, guiVars>>

\* write_frames: one render for each i below the frame count of the current
\* sprite; an error of the graphics or of the writer ends the loop early
WriteFrames ==
    /\ ap.some /\ ap.v.state = "running"
    /\ Len(ap.v.rendered) < MaxRenders
    /\ \E done \in 0..(IF ap.v.current_sprite \in SpriteKeys(ap.v.animation)
                       THEN PlayerFrameCount(ap.v.animation, ap.v.current_sprite)
                       ELSE 0) :
         ap' = Some([(IF ap.v.current_sprite \in SpriteKeys(ap.v.animation)
                      THEN RenderTimes(ap.v, done)
                      ELSE [ap.v EXCEPT !.state = "panicked"])
                     EXCEPT !.op = "write_frames", !.arg = done])
    /\ UNCHANGED <<backend, window, travVars, readVars, colorVars, decodeVars, guiVars>>

InitPlayer ==
    /\ IdleTraversal /\ IdleReader /\ IdleColor /\ IdleDecode /\ IdleGui
    /\ backend = NoneV /\ window = NoneV
    /\ \E a \in SpriteIds, build \in Builds :
         \E first \in SpriteKeys(a) : ap = Some(PlayerNew(a, first, build))

NextPlayer == PlayerRender \/ PlayerSetSpriteTo \/ PlayerSetFrame \/ WriteFrames

SpecPlayer == InitPlayer /\ [][NextPlayer]_vars

-----------------------------------------------------------------------------
(* C27: the frame of the player *)

\* the k-th render since a set_sprite, with no set_frame since, is at frame k
RendersCountFromZero ==
    \A i \in 1..Len(ap.v.rendered) :
        ap.v.rendered[i].k.some => ap.v.rendered[i].frame = U32(ap.v.rendered[i].k.v)

\* C27: a new player is at frame 0; a render renders the current sprite at
\* the current frame and leaves the frame one higher; set_sprite(s) makes s
\* the current sprite and the frame 0; set_frame(n) makes the frame n and
\* keeps the sprite; the k-th render after a set_sprite with no set_frame in
\* between is at frame k.
C27_FrameProgression ==
    /\ [](/\ ap.v.op = "new" => ap.v.frame = U32(0)
          /\ RendersCountFromZero)
    /\ [][/\ ap'.v.op = "render" =>
               /\ ap'.v.rendered = Append(ap.v.rendered,
                                          [sprite |-> ap.v.current_sprite,
                                           frame |-> ap.v.frame, k |-> ap.v.since])
               /\ ap'.v.frame = Successor(ap.v.frame)
               /\ ap'.v.current_sprite = ap.v.current_sprite
          /\ ap'.v.op = "set_sprite" =>
               ap'.v.current_sprite = ap'.v.arg /\ ap'.v.frame = U32(0)
          /\ ap'.v.op = "set_frame" =>
               ap'.v.frame = ap'.v.arg /\ ap'.v.current_sprite = ap.v.current_sprite]_vars

\* what holds of every render of a sprite the animation has, at a frame below
\* u32::MAX, and of every other operation
FrameProgressionInRange ==
    /\ [](/\ ap.v.op = "new" => ap.v.frame = U32(0)
          /\ RendersCountFromZero)
    /\ [][/\ (/\ ap'.v.op = "render"
              /\ ap.v.current_sprite \in SpriteKeys(ap.v.animation)
              /\ ap.v.frame # U32Max) =>
               /\ ap'.v.rendered = Append(ap.v.rendered,
                                          [sprite |-> ap.v.current_sprite,
                                           frame |-> ap.v.frame, k |-> ap.v.since])
               /\ ap'.v.frame = Successor(ap.v.frame)
               /\ ap'.v.current_sprite = ap.v.current_sprite
          /\ ap'.v.op = "set_sprite" =>
               ap'.v.current_sprite = ap'.v.arg /\ ap'.v.frame = U32(0)
          /\ ap'.v.op = "set_frame" =>
               ap'.v.frame = ap'.v.arg /\ ap'.v.current_sprite = ap.v.current_sprite]_vars

-----------------------------------------------------------------------------
(* C28: the positions the Indexed arm looks up *)

\* C28: for an Indexed sprite with a frame count of at least 1 and any frame
\* f, the positions (f mod frame_count) * stride and the one after it are
\* inside the frame-position table, so a selection that fails there fails at
\* the count of the child-id table and not at offset or current; and the
\* selection fails on the division exactly for the sprites with frame count 0.
C28_IndexedSelectionInBounds ==
    /\ \A id \in DOMAIN anm.sprites : \A f \in 0..(4 * MaxFrame) :
         IsIndexed(id) =>
           LET sprite == anm.sprites[id]
               frame_pos == sprite.payload.frame_pos
               index == (f % FrameCount(sprite)) * StrideOf(sprite)
               sel == SelectChildren(sprite, f)
           IN  IF FrameCount(sprite) = 0 THEN sel.panic = "panic_div"
               ELSE /\ index >= 0 /\ index + 1 < Len(frame_pos)
                    /\ Get(frame_pos, index).some /\ Get(frame_pos, index + 1).some
                    /\ sel.panic # "panic_div"
                    /\ sel.panic = "panic_index" =>
                         ~Get(sprite.payload.sprite_info,
                              AsUsize(Get(frame_pos, index + 1).v)).some
    /\ \A i \in 1..Len(trace[1]) :
         (trace[1][i].ev = "enter" /\ IsIndexed(trace[1][i].sprite)) =>
           (trace[1][i].kind = "panic_div"
              <=> FrameCount(anm.sprites[trace[1][i].sprite]) = 0)

\* render_sprite has selected the children of an Indexed sprite with an
\* action list and two frames of three positions at frame 1: index 3, the last
\* position looked up is 4 of 0..5
C28_Witness ==
    /\ status[1] = "done"
    /\ input[1].v.frame = 1
    /\ IsIndexed(input[1].v.sprite)
    /\ LET sprite == anm.sprites[input[1].v.sprite]
       IN  /\ Len(sprite.payload.frame_pos) = 6
           /\ StrideOf(sprite) = 3
           /\ FrameCount(sprite) = 2
           /\ trace[1][1].kind = ""
           /\ trace[1][1].pos = AsUsize(sprite.payload.frame_pos[4])
           /\ Len(trace[1][1].kids) >= 1

-----------------------------------------------------------------------------
(* C29: the strings an action of kind 4 or 8 reads *)

\* how many of the n strings asked for from position q on the cursor yields
\* before it fails or has given them all
RECURSIVE StringsReadFrom(_, _, _)
StringsReadFrom(b, q, n) ==
    IF n = 0 THEN 0
    ELSE LET str == DecodeString(b, q)
         IN  IF ~str.ok THEN 0 ELSE 1 + StringsReadFrom(b, str.pos, n - 1)

\* the strings Action::decode reads behind kind and parameter count, for the
\* kinds 4 and 8
StringsRead(b, build) ==
    LET param_count == b[2]
        less == U8MinusOne(param_count, build)
        first == DecodeString(b, 2)
    IN  IF b[1] = 4
        THEN IF ~first.ok THEN 0
             ELSE IF ~less.some THEN 1
             ELSE 1 + StringsReadFrom(b, first.pos,
                                      IF first.v = Optimized THEN less.v \div 2 ELSE less.v)
        ELSE IF ~less.some THEN 0
             ELSE LET asked == 2 * (less.v \div 2)
                      pairs == StringsReadFrom(b, 2, asked)
                  IN  IF pairs < asked \/ param_count % 2 = 0 THEN pairs
                      ELSE pairs + StringsReadFrom(b, SkipStrings(b, 2, asked), 1)

IsNamesAction == Outcome("Action") /\ cursor.bytes \in ActionRecords /\ cursor.bytes[1] \in {4, 8}

\* C29: an action of kind 4 or 8 with parameter count p makes the decoder
\* read at most p strings, for every p from 0 on.
C29_StringsWithinCount ==
    IsNamesAction => StringsRead(cursor.bytes, decoded.v.build) <= cursor.bytes[2]

\* the same for the parameter counts from 1 on; and a decode that succeeds
\* has read what the count of its result says
StringsWithinCountFromOne ==
    (IsNamesAction /\ cursor.bytes[2] >= 1) =>
        /\ StringsRead(cursor.bytes, decoded.v.build) <= cursor.bytes[2]
        /\ (decoded.v.res.ok /\ cursor.bytes[1] = 8) =>
             StringsRead(cursor.bytes, decoded.v.build)
                = Len(decoded.v.res.v.previous) + Len(decoded.v.res.v.next)
                    + (IF decoded.v.res.v.default.some THEN 1 ELSE 0)

-----------------------------------------------------------------------------
(* C30: every request is answered *)

\* the requests of the ring are the channels not yet served, oldest first
RingInOrder ==
    \A i \in 1..Len(io_requests) :
        /\ io_requests[i].id = channels[io_requests[i].sender].id
        /\ io_requests[i].sender = Len(channels) - Len(io_requests) + i

\* what a step of the worker does to the requests
ServesInTurn ==
    /\ (worker.v.pc = "pop" /\ worker'.v.pc = "load") =>
         /\ worker'.v.req.v = Head(io_requests)
         /\ io_requests' = Tail(io_requests)
         /\ \A j \in 1..(worker'.v.req.v.sender - 1) : Served(j)
         /\ channels' = channels
    /\ (worker.v.pc = "load" /\ worker'.v.pc = "pop") =>
         \E k \in {worker.v.req.v.sender} :
             /\ ~Served(k) /\ Served(k)'
             /\ channels[k].state = "open"
             /\ \A j \in 1..Len(channels) : j # k => channels'[j] = channels[j]
             /\ channels[k].receiver =>
                  channels'[k].state = "sent" /\ channels'[k].value \in {"ok", "err"}
    /\ \A k \in 1..Len(channels) :
         /\ Served(k) => Served(k)'
         /\ channels[k].value # "" => channels'[k].value = channels[k].value
         /\ channels'[k].value # channels[k].value =>
              (worker.v.pc = "load" /\ worker.v.req.v.sender = k)

=============================================================================
